---- MODULE Spec2Model ----
(***************************************************************************)
(* Lyra backend: environment allocation and lifecycle, launch tickets and  *)
(* the worker health cache, modelled as state machines.                    *)
(*                                                                         *)
(* The database is modelled at READ COMMITTED: a transaction reads the     *)
(* committed store when it runs its queries and its unique constraints are *)
(* decided against the committed store when it flushes/commits.            *)
(***************************************************************************)
EXTENDS Integers, Sequences, FiniteSets, TLC

(* ------------------------------ bounds --------------------------------- *)
\* concurrent create requests; request p creates the environment with id p
NumCreators == 2
\* device count returned by the GPU inventory
TotalGpus == 1
\* width of each of the ssh / jupyter / code port ranges
PortWidth == 2
\* width of the surrogate port range of shadow rows
SurrogateWidth == 3
\* launch tickets issued and concurrent redemption requests
MaxTickets == 2
NumRedeemers == 2
\* the wall clock advances in steps of TicketTick seconds up to MaxWallClock
TicketTick == 30
MaxWallClock == 90
\* concurrent refresh_worker_health callers and worker updates
NumRefreshers == 2
MaxUpdates == 1
\* the monotonic clock advances in steps of HealthTick seconds up to MaxMonotonic
HealthTick == 4
MaxMonotonic == 12
\* concurrent delete_environment requests
NumDeleters == 2
\* concurrent create and update requests on worker_servers
NumWorkerReqs == 2

(* --------------------------- program constants ------------------------- *)
MAX_PORT_ALLOCATION_RETRIES == 8
JUPYTER_LAUNCH_TTL_SECONDS == 60
CODE_LAUNCH_TTL_SECONDS == 60
\* _resolve_worker_health_cache_ttl with LYRA_WORKER_HEALTH_CACHE_SECONDS unset
WORKER_HEALTH_CACHE_TTL == 8
CONTAINER_RUN_PORT_RETRIES == 3
GPU_OCCUPIED_STATUSES == {"creating", "building", "running", "starting"}
RESERVED_CONTAINER_PORTS == {22, 8080, 8888}
SshRange == 20000 .. (20000 + PortWidth - 1)
JupyterRange == 25001 .. (25001 + PortWidth - 1)
CodeRange == 30001 .. (30001 + PortWidth - 1)
REMOTE_SURROGATE_PORT_RANGE == 61001 .. (61001 + SurrogateWidth - 1)

Procs == 1 .. NumCreators
EnvIds == Procs
\* worker_server_id: 0 stands for None (host-managed), 1 for a worker
HostScope == 0
WorkerIds == {1}

Names == {"a", "b"}
\* a custom port mapping is [host_port, container_port]
Mapping(h, c) == [host_port |-> h, container_port |-> c]
CustomChoices == {<<>>, <<Mapping(35001, 10000)>>}
\* what a worker may answer in "custom_ports": nothing, a valid list, or
\* lists that _validate_custom_ports rejects
RemoteCustomChoices ==
    {<<>>, <<Mapping(35001, 10000)>>,
     <<Mapping(35001, 10000), Mapping(35001, 10001)>>,
     <<Mapping(35002, 22)>>}
\* gpu request: [gpu_count, selected_gpu_indices]
GpuChoices0 == [gpu_count |-> 0, selected |-> <<>>]
GpuChoices == {GpuChoices0,
               [gpu_count |-> 1, selected |-> <<>>],
               [gpu_count |-> 0, selected |-> <<0>>]}

NoReq == [name |-> "", worker |-> HostScope, gpu_count |-> 0,
          selected |-> <<>>, custom |-> <<>>, dockerfile_content |-> <<>>, cipher |-> "ok",
          enable_jupyter |-> TRUE, enable_code_server |-> TRUE]
NoPend == [gpu |-> {}, ssh |-> 0, jup |-> 0, code |-> 0, status |-> ""]
NoResp == [status |-> 0, code |-> ""]
Resp(s, c) == [status |-> s, code |-> c]

VARIABLES
    envs,          \* environments table: env id -> row (domain = stored rows)
    customSetting, \* settings "custom_ports:<id>": env id -> list of mappings
    tokenKeys,     \* env ids that have a "jupyter_token:<id>" setting
    container,     \* container runtime: env id -> "none" | "running" | "exited"
    lock,          \* holder of pg_advisory_xact_lock(GPU_ALLOCATION_LOCK_KEY), 0 = free
    cr,            \* create request p: [pc, req, pend, attempts, resp]
    remote,        \* env id -> the environment exists on the worker
    remoteDeletes, \* env id -> remote DELETE calls issued by create's cleanup
    task,          \* provisioning task of env id: [pc, attempt]
    startPc,       \* env id -> a start request is between "starting" and container.start()
    wallClock,     \* time.time(), in seconds
    ticketMeta,    \* the ticket objects ever issued: [kind, env, expires_at, used, remote]
    jupyter_launch_tickets, \* tickets (indices of ticketMeta) held by the jupyter dict
    code_launch_tickets,    \* tickets held by the code-server dict
    rd,            \* redemption request q: [pc, kind, ticket, env, first, later, late, resp]
    monotonic,     \* time.monotonic(), in seconds
    workerRec,     \* worker_servers table: worker id -> [exists, gen]
    worker_health_cache, \* _worker_health_cache: worker id -> [result, cached_at]
    rf,            \* refresh_worker_health call r
    upd,           \* update_worker_server request: [pc, gen, start, count]
    rsIn,          \* arguments of a _resolve_environment_status call
    rsOut,         \* its result ("" before the call)
    readResp,      \* env id -> status reported by the last read ("" if none)
    ssh,           \* a connect_ssh call and its transport
    del,           \* delete_environment request d
    wdel,          \* the delete_worker_server request: [pc, resp]
    peer,          \* worker id -> what answers at the worker's base_url right now
    ready,         \* create request p: its _assert_worker_is_ready call
    remoteEnv,     \* env id -> the environment as the worker created it
    opResp,        \* answer of the last start or stop request: [env, op, status, message]
    readErr,       \* env id -> worker_error_code of the last read ("" for None)
    wtab,          \* worker_servers table, names and addresses: row id -> [name, base_url]
    wreq,          \* create_worker_server / update_worker_server request q
    hc,            \* a check_worker_health call: the attempts made and its result
    wcall,         \* a call_worker_api call: what the worker answered and its outcome
    foreignPorts,  \* host ports bound by containers that belong to no environment
    gp             \* the GPU allocation of a local create, with the GPU count of the host

storeVars == <<envs, customSetting, tokenKeys>>
allocVars == <<envs, customSetting, tokenKeys, container, lock, cr, remote,
               remoteDeletes, task, startPc>>
ticketVars == <<wallClock, ticketMeta, jupyter_launch_tickets, code_launch_tickets, rd>>
healthVars == <<monotonic, workerRec, worker_health_cache, rf, upd>>

auxVars == <<rsIn, rsOut, readResp, ssh, del, wdel>>

regVars == <<wtab, wreq, hc, wcall, foreignPorts, gp>>

extVars == <<peer, ready, remoteEnv, opResp, readErr, regVars>>

vars == <<allocVars, ticketVars, healthVars, auxVars, extVars>>

(* ------------------------- store helper operators ---------------------- *)
Range(s) == {s[i] : i \in DOMAIN s}
Rows == DOMAIN envs
RemoveKey(f, k) == [x \in DOMAIN f \ {k} |-> f[x]]
HostPortsOf(s) == {s[i].host_port : i \in DOMAIN s}

\* _get_docker_used_ports: host ports bound by existing containers, those of the
\* environments and the others on the host
DockerUsedPorts ==
    UNION {{envs[e].ssh, envs[e].jup, envs[e].code} \cup
             (IF e \in DOMAIN customSetting THEN HostPortsOf(customSetting[e]) ELSE {})
           : e \in {x \in Rows : container[x] # "none"}}
      \cup foreignPorts

\* _collect_blocked_host_ports
CollectBlockedHostPorts ==
    UNION {{envs[e].ssh, envs[e].jup, envs[e].code} : e \in Rows}
      \cup UNION {HostPortsOf(customSetting[e]) : e \in DOMAIN customSetting}
      \cup DockerUsedPorts

\* _collect_used_gpu_indices(db, worker_server_id)
CollectUsedGpuIndices(scope) ==
    UNION {envs[e].gpu : e \in {x \in Rows : /\ envs[x].status \in GPU_OCCUPIED_STATUSES
                                             /\ envs[x].worker = scope}}

\* _allocate_ports: the triples the random picks can produce (empty: 503)
AllocatePorts ==
    LET blocked == CollectBlockedHostPorts IN
    {t \in SshRange \X JupyterRange \X CodeRange :
        /\ t[1] \notin blocked
        /\ t[2] \notin blocked \cup {t[1]}
        /\ t[3] \notin blocked \cup {t[1], t[2]}}

\* _allocate_remote_surrogate_ports
AllocateRemoteSurrogatePorts ==
    LET blocked == CollectBlockedHostPorts
        R == REMOTE_SURROGATE_PORT_RANGE IN
    {t \in R \X R \X R :
        /\ t[1] \notin blocked
        /\ t[2] \notin blocked \cup {t[1]}
        /\ t[3] \notin blocked \cup {t[1], t[2]}}

\* _validate_custom_ports: "" when valid, else the code of the first violation
RECURSIVE ValidateCustomPortsFrom(_, _, _, _)
ValidateCustomPortsFrom(s, i, hosts, conts) ==
    IF i > Len(s) THEN ""
    ELSE IF s[i].host_port \in hosts THEN "duplicate_custom_host_port"
    ELSE IF s[i].container_port \in conts THEN "duplicate_custom_container_port"
    ELSE IF s[i].container_port \in RESERVED_CONTAINER_PORTS THEN "reserved_container_port"
    ELSE ValidateCustomPortsFrom(s, i + 1, hosts \cup {s[i].host_port},
                                 conts \cup {s[i].container_port})
ValidateCustomPorts(s) == ValidateCustomPortsFrom(s, 1, {}, {})

\* the unique constraints of the environments table (models.py)
\* a table without the unique constraint on name
NoNameConstraint(name) == FALSE
NameUniqueViolation(name) == \E e \in Rows : envs[e].name = name
PortUniqueViolation(row) ==
    \E e \in Rows : \/ envs[e].ssh = row.ssh
                    \/ envs[e].jup = row.jup
                    \/ envs[e].code = row.code

\* variant: the last n elements of the ascending list
RECURSIVE LastN(_, _)
LastN(free, n) ==
    IF n = 0 \/ free = {} THEN {}
    ELSE LET m == CHOOSE x \in free : \A y \in free : x >= y
         IN {m} \cup LastN(free \ {m}, n - 1)

\* first n elements of the ascending list of the indices in free
RECURSIVE FirstN(_, _)
FirstN(free, n) ==
    IF n = 0 \/ free = {} THEN {}
    ELSE LET m == CHOOSE x \in free : \A y \in free : x <= y
         IN {m} \cup FirstN(free \ {m}, n - 1)

(* --------------------------------- Init -------------------------------- *)
InitAlloc ==
    /\ envs = <<>>
    /\ customSetting = <<>>
    /\ tokenKeys = {}
    /\ container = [e \in EnvIds |-> "none"]
    /\ lock = 0
    /\ cr = [p \in Procs |-> [pc |-> "idle", req |-> NoReq, pend |-> NoPend,
                              attempts |-> 0, resp |-> NoResp]]
    /\ remote = [e \in EnvIds |-> FALSE]
    /\ remoteDeletes = [e \in EnvIds |-> 0]
    /\ task = [e \in EnvIds |-> [pc |-> "none", attempt |-> 0]]
    /\ startPc = [e \in EnvIds |-> "idle"]

Redeemers == 1 .. NumRedeemers
Refreshers == 1 .. NumRefreshers
Kinds == {"jupyter", "code"}
NoRedeem == [pc |-> "idle", kind |-> "", ticket |-> 0, env |-> 0,
             first |-> FALSE, later |-> FALSE, late |-> FALSE, resp |-> 0]
NoResult == [status |-> "", gen |-> 0]
NoRefresh == [pc |-> "idle", worker |-> 0, gen |-> 0, start |-> 0, use_cache |-> FALSE,
              persist |-> FALSE, hit |-> FALSE, probed |-> FALSE, flushed |-> FALSE,
              result |-> NoResult]

\* exit_code is None
ExitUnset == -1
NoResolveArgs == [current_status |-> "", container_status |-> "", state_status |-> "",
                  exit_code |-> ExitUnset, oom_killed |-> FALSE, error_msg |-> <<>>]
\* connect_ssh not called yet.  fp is the host_fingerprint argument (its text as a
\* character sequence, and how it relates to the server's key), key the host key
\* the server presents, server_key whether the transport has obtained it, auth the
\* authentication calls made on the transport, mode the host-key policy mode, known
\* how the trusted store (system host keys and the known_hosts file) stands to the
\* server: it holds the key presented ("yes"), no key of the server ("no"), or
\* another key for it ("other").
NoSsh == [pc |-> "idle", fp |-> [kind |-> "none", text |-> <<>>], key |-> 0,
          auth_method |-> "", has_key |-> FALSE, transport |-> "none",
          server_key |-> FALSE, verified |-> FALSE, auth |-> <<>>, error |-> "",
          mode |-> "", known |-> ""]
Deleters == 1 .. NumDeleters
\* str.strip() on a character sequence: drop leading and trailing whitespace
RECURSIVE Strip(_)
Strip(s) ==
    IF s = <<>> THEN s
    ELSE IF Head(s) \in {" ", "\t", "\n"} THEN Strip(Tail(s))
    ELSE IF s[Len(s)] \in {" ", "\t", "\n"} THEN Strip(SubSeq(s, 1, Len(s) - 1))
    ELSE s

\* an answer of the worker API: http status, error code, and whether the error
\* message holds the words "not found"; AnswerOk is a 2xx body
AnswerOk == [status_code |-> 200, code |-> "", not_found_text |-> FALSE]
\* delete_environment not called yet.  worker is env.worker_server_id as loaded,
\* completed is remote_delete_completed, answer the worker's answer to the remote
\* delete, failed_at the stage that raised; retry tells that the request began
\* after a delete of the same environment had ended with local_cleanup_failed.
NoDelete == [pc |-> "idle", env |-> 0, force |-> FALSE, worker |-> HostScope,
             completed |-> FALSE, answer |-> AnswerOk, failed_at |-> "", resp |-> NoResp,
             retry |-> FALSE]

\* concurrent create_worker_server and update_worker_server requests; the rows
\* stored at the start have the ids 1 .. MaxWorkerRow
WorkerReqs == 1 .. NumWorkerReqs
MaxWorkerRow == 2
\* no request yet; pend is the row the request is about to flush, each field with
\* whether the request sets it
NoField == [given |-> FALSE, text |-> <<>>]
NoWorkerReq == [pc |-> "idle", row |-> 0, name |-> NoField, base_url |-> NoField,
                resp |-> [code |-> "", status |-> 0]]
\* no GPU allocation yet; total is what _detect_total_gpus returns
NoPick == [pc |-> "idle", req |-> NoReq, total |-> 0, resp |-> NoResp]
\* latency_ms is None, http_status is None
NoHealthResult == [status |-> "", http_status |-> 0, latency_set |-> FALSE]
\* check_worker_health not called yet.  base_url and api_token are those of the
\* config, env is LYRA_WORKER_HTTP_TIMEOUT and timeout the argument (0 for None);
\* attempts lists what each call of _request_worker_health returned or raised
NoCheck == [pc |-> "idle", base_url |-> <<>>, api_token |-> <<>>,
            env |-> [kind |-> "unset", value |-> 0], timeout |-> 0,
            request_timeout |-> 0, attempts |-> <<>>, result |-> NoHealthResult]
\* a text field of a JSON body is a character sequence; a field that is absent,
\* null or "" is <<>>, which is what `x.get(...) or ""` reads in all three cases.
\* The "detail" member of a body: absent, a text, or an object
NoDetail == [kind |-> "absent", text |-> <<>>, code |-> <<>>, message |-> <<>>, detail |-> <<>>]
\* the JSON object {}
EmptyObject == [kind |-> "object", detail |-> NoDetail, code |-> <<>>, message |-> <<>>, error |-> <<>>]
\* a response content that is not a JSON object: "empty" (no bytes), "unparsable"
\* (not JSON), "null", "list"; "none" stands for no body at all
Content(kind) == [EmptyObject EXCEPT !.kind = kind]
\* call_worker_api has neither returned nor raised
NoCallResult == [raised |-> FALSE, code |-> <<>>, message |-> <<>>, status_code |-> 0, body |-> Content("none")]
\* call_worker_api not called yet.  config is how build_worker_connection_config
\* ends, attempts lists what each call of _request_worker_json returned or raised
NoCall == [pc |-> "idle", config |-> "ok", attempts |-> <<>>, result |-> NoCallResult]
\* no start or stop request has been answered
NoOp == [env |-> 0, op |-> "", status |-> 0, message |-> ""]
\* the worker created nothing under this id.  by is what answered the create call.
NoRemoteEnv == [by |-> "", worker |-> HostScope, status |-> "", gpu |-> <<>>]
\* no readiness check made.  gen is the worker record the request loaded, start
\* the now_monotonic of its refresh_worker_health, how tells whether the health
\* result came from the cache or from a probe made by this request, served what
\* answered at the worker's address when the result was returned.
NoReady == [gen |-> 0, start |-> 0, how |-> "", status |-> "", served |-> ""]

\* the ticket dicts are module globals: empty when the process starts
InitTickets ==
    /\ wallClock = 0
    /\ ticketMeta = <<>>
    /\ jupyter_launch_tickets = {}
    /\ code_launch_tickets = {}
    /\ rd = [q \in Redeemers |-> NoRedeem]

\* a registered worker; _worker_health_cache is empty when the process starts
InitHealth ==
    /\ monotonic = 0
    /\ workerRec = [w \in WorkerIds |-> [exists |-> TRUE, gen |-> 0]]
    /\ worker_health_cache = <<>>
    /\ rf = [r \in Refreshers |-> NoRefresh]
    /\ upd = [pc |-> "idle", gen |-> 0, start |-> 0, count |-> 0]

\* no resolve call, read, ssh connection or delete request has been made
InitAux ==
    /\ rsIn = NoResolveArgs
    /\ rsOut = ""
    /\ readResp = [e \in EnvIds |-> ""]
    /\ ssh = NoSsh
    /\ del = [d \in Deleters |-> NoDelete]
    /\ wdel = [pc |-> "idle", resp |-> 0]

\* the worker's address leads to a server the main node understands; no
\* readiness check has been made
InitRegistry ==
    /\ peer = [w \in WorkerIds |-> "flat"]
    /\ ready = [p \in Procs |-> NoReady]
    /\ remoteEnv = [e \in EnvIds |-> NoRemoteEnv]
    /\ opResp = NoOp
    /\ readErr = [e \in EnvIds |-> ""]
    /\ wtab = (1 :> [name |-> <<"w">>, base_url |-> <<"u">>])
              @@ (2 :> [name |-> <<"x">>, base_url |-> <<"v">>])
    /\ wreq = [q \in WorkerReqs |-> NoWorkerReq]
    /\ foreignPorts = {}
InitExt == InitRegistry /\ hc = NoCheck /\ wcall = NoCall /\ gp = NoPick

Init == InitAlloc /\ InitTickets /\ InitHealth /\ InitAux /\ InitExt

\* environment 1 provisioned on the host (its task between containers.run and
\* the final commit, or finished) and environment 2 delegated to the worker, with
\* code-server disabled
InitProvisioned ==
    /\ \E st \in {"building", "running"} :
         /\ envs = (1 :> [name |-> "a", worker |-> HostScope, status |-> st, gpu |-> {},
                          ssh |-> 20000, jup |-> 25001, code |-> 30001,
                          enable_jupyter |-> TRUE, enable_code_server |-> TRUE])
                   @@ (2 :> [name |-> "b", worker |-> 1, status |-> "running", gpu |-> {},
                             ssh |-> 61001, jup |-> 61002, code |-> 61003,
                             enable_jupyter |-> TRUE, enable_code_server |-> FALSE])
         /\ task = [e \in EnvIds |->
                      [pc |-> IF e = 1 /\ st = "building" THEN "finish"
                              ELSE IF e = 1 THEN "done" ELSE "none",
                       attempt |-> 0]]
    /\ customSetting = (1 :> <<>>) @@ (2 :> <<>>)
    /\ tokenKeys = {1}
    /\ container = [e \in EnvIds |-> IF e = 1 THEN "running" ELSE "none"]
    /\ lock = 0
    /\ cr = [p \in Procs |-> [pc |-> "done", req |-> NoReq, pend |-> NoPend,
                              attempts |-> 0, resp |-> Resp(201, "created")]]
    /\ remote = [e \in EnvIds |-> e = 2]
    /\ remoteDeletes = [e \in EnvIds |-> 0]
    /\ startPc = [e \in EnvIds |-> "idle"]

(* --------------------------- worker health cache ----------------------- *)
ProbeStatuses == {"healthy", "unreachable"}

\* variant: an entry is served whatever its age
CacheFreshAnyAge(w, now) == w \in DOMAIN worker_health_cache

\* refresh_worker_health, the cache test: an entry no older than the TTL
CacheFresh(w, now) ==
    /\ WORKER_HEALTH_CACHE_TTL > 0
    /\ w \in DOMAIN worker_health_cache
    /\ now - worker_health_cache[w].cached_at <= WORKER_HEALTH_CACHE_TTL

\* _worker_health_cache[cache_key] = WorkerHealthCacheEntry(...)
CacheStore(w, result, start) ==
    worker_health_cache' =
        [x \in DOMAIN worker_health_cache \cup {w} |->
            IF x = w THEN [result |-> result, cached_at |-> start]
            ELSE worker_health_cache[x]]

\* invalidate_worker_health_cache
InvalidateWorkerHealthCache(w) ==
    worker_health_cache' = RemoveKey(worker_health_cache, w)

(* ------------------- worker peers and the health probe ------------------ *)
\* dict.get(key) with None written as ""
Get(d, k) == IF k \in DOMAIN d THEN d[k] ELSE ""

\* worker_api.py 21-22: _ok
Ok(data, message) == [status |-> "ok", code |-> "ok", message |-> message, data |-> data]
\* worker_api.py 49-51: the body of GET /api/worker/health
WorkerHealth == Ok([role |-> "worker"], "Worker is healthy")

\* what may answer at a worker's base_url: a server whose bodies have the fields
\* at top level, this program in its worker role, a server that refuses the
\* token, a server that answers with a JSON list, and nothing at all
PeerKinds == {"flat", "lyra", "unauthorized", "list", "down"}
\* the outcome of _request_worker_health against such a peer
RequestWorkerHealth(kind) ==
    CASE kind = "flat" -> [raised |-> "", http_status |-> 200, is_dict |-> TRUE,
                           payload |-> [status |-> "ok", role |-> "worker"]]
      [] kind = "lyra" -> [raised |-> "", http_status |-> 200, is_dict |-> TRUE,
                           payload |-> WorkerHealth]
      [] kind = "unauthorized" -> [raised |-> "", http_status |-> 401, is_dict |-> TRUE,
                                   payload |-> [detail |-> "Unauthorized"]]
      [] kind = "list" -> [raised |-> "", http_status |-> 200, is_dict |-> FALSE,
                           payload |-> <<>>]
      [] OTHER -> [raised |-> "ConnectError", http_status |-> 0, is_dict |-> FALSE,
                   payload |-> <<>>]

\* worker_registry.py 148-213: check_worker_health, both attempts failing alike
CheckWorkerHealth(r) ==
    IF r.raised # "" THEN "unreachable"
    ELSE IF r.http_status \in {401, 403} THEN "auth_failed"
    ELSE IF r.http_status # 200 THEN "request_failed"
    ELSE IF ~r.is_dict THEN "api_mismatch"
    ELSE IF Get(r.payload, "status") # "ok" \/ Get(r.payload, "role") # "worker"
      THEN "api_mismatch"
    ELSE "healthy"

\* worker_registry.py 65-75: _resolve_worker_timeout.  The variable is unset or
\* blank, not a number, or a number
ResolveWorkerTimeout(env) ==
    LET value == IF env.kind = "number" THEN env.value ELSE 5
    IN  IF value < 1 THEN 1 ELSE IF value > 30 THEN 30 ELSE value

\* what _request_worker_health raises
Raised(kind) == [raised |-> kind, http_status |-> 0, is_dict |-> FALSE, payload |-> <<>>]
\* what a call of _request_worker_health can end with: the answers of the peers,
\* a 403, a 500, a timeout, a refused connection, another httpx error, another
\* exception
ProbeOutcomes ==
    {RequestWorkerHealth(k) : k \in {"flat", "lyra", "unauthorized", "list"}}
      \cup {[raised |-> "", http_status |-> st, is_dict |-> TRUE,
              payload |-> [detail |-> "x"]] : st \in {403, 500}}
      \cup {Raised(k) : k \in {"TimeoutException", "ConnectError", "HTTPError", "Exception"}}

HealthReturn(status, http_status, latency_set) ==
    [status |-> status, http_status |-> http_status, latency_set |-> latency_set]

\* worker_registry.py 150-156: the config tests and the timeout
CheckBegin ==
    /\ hc.pc = "idle"
    /\ hc' = IF hc.base_url = <<>> \/ hc.api_token = <<>>
               THEN [hc EXCEPT !.pc = "done",
                               !.result = HealthReturn("misconfigured", 0, FALSE)]
             ELSE [hc EXCEPT !.pc = "probe",
                             !.request_timeout = IF hc.timeout # 0 THEN hc.timeout
                                                 ELSE ResolveWorkerTimeout(hc.env)]
    /\ UNCHANGED <<allocVars, ticketVars, healthVars, auxVars, peer, ready, remoteEnv,
                   opResp, readErr, wtab, wreq, wcall, foreignPorts, gp>>

\* variant: the first timeout or refused connection ends the check
CheckProbeNoRetry(r) ==
    /\ hc.pc = "probe"
    /\ hc' = [hc EXCEPT !.attempts = Append(@, r), !.pc = "done",
                        !.result = IF r.raised = ""
                                     THEN HealthReturn(CheckWorkerHealth(r), r.http_status, TRUE)
                                   ELSE IF r.raised \in {"TimeoutException", "ConnectError"}
                                     THEN HealthReturn("unreachable", 0, FALSE)
                                   ELSE HealthReturn("request_failed", 0, FALSE)]
    /\ UNCHANGED <<allocVars, ticketVars, healthVars, auxVars, peer, ready, remoteEnv,
                   opResp, readErr, wtab, wreq, wcall, foreignPorts, gp>>

\* worker_registry.py 157-213: one pass of `for attempt in range(2)`, and what
\* follows the loop when the request was answered
CheckProbe(r) ==
    /\ hc.pc = "probe"
    /\ LET attempt == Len(hc.attempts)
           tried == [hc EXCEPT !.attempts = Append(@, r)]
       IN hc' = IF r.raised = ""
                  THEN [tried EXCEPT !.pc = "done",
                                     !.result = HealthReturn(CheckWorkerHealth(r),
                                                             r.http_status, TRUE)]
                ELSE IF r.raised \in {"TimeoutException", "ConnectError"}
                  THEN IF attempt = 0 THEN tried
                       ELSE [tried EXCEPT !.pc = "done",
                                          !.result = HealthReturn("unreachable", 0, FALSE)]
                ELSE [tried EXCEPT !.pc = "done",
                                   !.result = HealthReturn("request_failed", 0, FALSE)]
    /\ UNCHANGED <<allocVars, ticketVars, healthVars, auxVars, peer, ready, remoteEnv,
                   opResp, readErr, wtab, wreq, wcall, foreignPorts, gp>>

(* ------------------------- call_worker_api ----------------------------- *)
\* `a or b` on two texts
OrElse(a, b) == IF a # <<>> THEN a ELSE b

\* worker_registry.py 129-136: the body _request_worker_json hands back.  No
\* content and a content that is not JSON give {}, and so does JSON null
RequestWorkerJson(content) ==
    IF content.kind \in {"empty", "unparsable", "null"} THEN EmptyObject ELSE content

\* variant: only the nested detail is searched for a code
WorkerErrorCodeNestedOnly(body) ==
    IF body.kind = "object" /\ body.detail.kind = "object" /\ Strip(body.detail.code) # <<>>
      THEN Strip(body.detail.code)
    ELSE <<"worker_request_failed">>

\* worker_registry.py 313-328: error_code of an answer of 400 or above
WorkerErrorCode(body) ==
    LET nested == IF body.kind = "object" /\ body.detail.kind = "object"
                    THEN Strip(body.detail.code) ELSE <<>>
        top == IF body.kind = "object" THEN Strip(body.code) ELSE <<>>
    IN  IF top # <<>> THEN top
        ELSE IF nested # <<>> THEN nested
        ELSE <<"worker_request_failed">>

\* worker_registry.py 314-330: detail of an answer of 400 or above
WorkerErrorDetail(body, http_status) ==
    LET first == IF body.kind # "object" THEN <<>>
                 ELSE IF body.detail.kind = "object"
                   THEN Strip(OrElse(body.detail.message, body.detail.detail))
                 ELSE Strip(OrElse(body.detail.text, body.message))
        second == IF body.kind = "object" /\ first = <<>> THEN Strip(body.error) ELSE first
    IN  IF second # <<>> THEN second
        ELSE <<"Worker responded with status", ToString(http_status)>>

\* raise WorkerRequestError(code, message, status_code)
WorkerRequestError(code, message, status_code) ==
    [raised |-> TRUE, code |-> <<code>>, message |-> message, status_code |-> status_code,
     body |-> Content("none")]

\* worker_registry.py 307-335: what call_worker_api does with an answer
NormalizeAnswer(http_status, body) ==
    IF http_status \in {401, 403}
      THEN WorkerRequestError("worker_auth_failed", <<"Worker authentication failed">>, 502)
    ELSE IF http_status >= 400
      THEN [raised |-> TRUE, code |-> WorkerErrorCode(body),
            message |-> WorkerErrorDetail(body, http_status),
            status_code |-> http_status, body |-> Content("none")]
    ELSE IF body.kind # "object"
      THEN WorkerRequestError("worker_api_mismatch", <<"Worker response payload is invalid">>, 502)
    ELSE [NoCallResult EXCEPT !.body = body]

\* what _request_worker_json raises
CallRaised(kind) == [raised |-> kind, http_status |-> 0, content |-> Content("none")]
\* the bodies a worker answers with
WorkerTexts == {<<>>, <<" ">>, <<"c">>}
WorkerDetails ==
    {NoDetail, [NoDetail EXCEPT !.kind = "text", !.text = <<"d">>],
     [NoDetail EXCEPT !.kind = "text", !.text = <<" ">>]}
      \cup {[NoDetail EXCEPT !.kind = "object", !.code = c, !.message = m, !.detail = d] :
               c \in WorkerTexts, m \in {<<>>, <<"n">>}, d \in {<<>>, <<"i">>}}
WorkerContents ==
    {Content(k) : k \in {"empty", "unparsable", "null", "list"}}
      \cup {[EmptyObject EXCEPT !.detail = dt, !.code = c, !.message = m, !.error = e] :
               dt \in WorkerDetails, c \in {<<>>, <<" ">>, <<"k">>},
               m \in {<<>>, <<"m">>}, e \in {<<>>, <<"e">>}}
\* what a call of _request_worker_json can end with
CallOutcomes ==
    {[raised |-> "", http_status |-> st, content |-> c] :
        st \in {200, 401, 403, 404, 500}, c \in WorkerContents}
      \cup {CallRaised(k) : k \in {"TimeoutException", "ConnectError", "HTTPError", "Exception"}}

\* worker_registry.py 281-288: the configuration of the worker is built
CallBegin ==
    /\ wcall.pc = "idle"
    /\ wcall' = IF wcall.config \in {"SecretCipherError", "SecretKeyError", "Exception"}
                  THEN [wcall EXCEPT !.pc = "done",
                          !.result = WorkerRequestError("worker_misconfigured",
                                                        <<wcall.config>>, 503)]
                ELSE [wcall EXCEPT !.pc = "request"]
    /\ UNCHANGED <<allocVars, ticketVars, healthVars, auxVars, peer, ready, remoteEnv,
                   opResp, readErr, wtab, wreq, hc, foreignPorts, gp>>

\* worker_registry.py 289-335: the one request, and what is made of its outcome
CallRequest(r) ==
    /\ wcall.pc = "request"
    /\ wcall' = [wcall EXCEPT !.attempts = Append(@, r), !.pc = "done",
                    !.result =
                       IF r.raised = "TimeoutException"
                         THEN WorkerRequestError("worker_unreachable",
                                                 <<"Worker request timed out">>, 503)
                       ELSE IF r.raised = "ConnectError"
                         THEN WorkerRequestError("worker_unreachable",
                                                 <<"Failed to connect to worker">>, 503)
                       ELSE IF r.raised = "HTTPError"
                         THEN WorkerRequestError("worker_request_failed",
                                                 <<"Worker HTTP error">>, 503)
                       ELSE IF r.raised = "Exception"
                         THEN WorkerRequestError("worker_request_failed",
                                                 <<"Worker request failed">>, 503)
                       ELSE NormalizeAnswer(r.http_status, RequestWorkerJson(r.content))]
    /\ UNCHANGED <<allocVars, ticketVars, healthVars, auxVars, peer, ready, remoteEnv,
                   opResp, readErr, wtab, wreq, hc, foreignPorts, gp>>

(* ----------------------- create_environment ---------------------------- *)
\* the create payloads a specification draws from
RequestsOf(names, workers, gpus, customs) ==
    {[name |-> n, worker |-> w, gpu_count |-> g.gpu_count, selected |-> g.selected,
      custom |-> c, dockerfile_content |-> <<"F", "R", "O", "M">>, cipher |-> "ok",
      enable_jupyter |-> TRUE, enable_code_server |-> TRUE] :
        n \in names, w \in workers, g \in gpus, c \in customs}

Goto(p, l) == cr' = [cr EXCEPT ![p].pc = l]
\* the request answers r; its locals are dropped
Return(p, r) ==
    cr' = [cr EXCEPT ![p] = [pc |-> "done", req |-> NoReq, pend |-> NoPend,
                             attempts |-> cr[p].attempts, resp |-> r]]

\* the checks of a local create that run before the allocation transaction
\* (environments.py 636-666): NoResp when they pass
GpuPrecheck(r, total) ==
    IF r.selected # <<>> THEN
        IF Cardinality(Range(r.selected)) # Len(r.selected)
            THEN Resp(400, "invalid_gpu_selection")
        ELSE IF \E i \in Range(r.selected) : i < 0 \/ i >= total
            THEN Resp(400, "invalid_gpu_selection")
        ELSE NoResp
    ELSE IF r.gpu_count > 0
            /\ Cardinality((0 .. total - 1) \ CollectUsedGpuIndices(r.worker)) < r.gpu_count
        THEN Resp(400, "gpu_capacity_insufficient")
    ELSE NoResp
LocalPrecheck(r) == GpuPrecheck(r, TotalGpus)

\* environments.py 668-679
CustomPrecheck(r) ==
    IF ValidateCustomPorts(r.custom) # "" THEN Resp(400, ValidateCustomPorts(r.custom))
    ELSE IF HostPortsOf(r.custom) \cap CollectBlockedHostPorts # {}
        THEN Resp(409, "custom_host_port_conflict")
    ELSE NoResp

\* the up-front checks without the Dockerfile and cipher tests
UpFrontCheckNameOnly(r) ==
    IF NameUniqueViolation(r.name) THEN Resp(409, "duplicate_environment_name")
    ELSE NoResp

\* environments.py 491-515: Dockerfile content, name, encryption of the root
\* password (r.cipher tells how encrypt_secret ends)
UpFrontCheck(r) ==
    IF r.dockerfile_content = <<>> \/ Strip(r.dockerfile_content) = <<>>
      THEN Resp(400, "dockerfile_required")
    ELSE IF NameUniqueViolation(r.name) THEN Resp(409, "duplicate_environment_name")
    ELSE IF r.cipher = "key_missing" THEN Resp(500, "security_key_missing")
    ELSE IF r.cipher = "cipher_failed" THEN Resp(500, "password_encryption_failed")
    ELSE NoResp

\* variant: only an unreachable worker is turned away
HealthPassesUnlessUnreachable(status) == status # "unreachable"
\* environments.py 314: health.status != WORKER_HEALTH_HEALTHY raises
HealthPasses(status) == status = "healthy"

\* environments.py 306-319 and worker_registry.py 215-232: _assert_worker_is_ready
\* up to the first await of refresh_worker_health(db, worker, persist=False).  The
\* worker's connection config can be built.  On a cache hit the remote create is
\* sent at once ("d_call"), else the probe is.
AssertWorkerIsReady(p, r) ==
    IF ~workerRec[r.worker].exists
      THEN Return(p, Resp(404, "worker_not_found")) /\ UNCHANGED ready
    ELSE IF CacheFresh(r.worker, monotonic)
      THEN LET st == worker_health_cache[r.worker].result.status IN
           /\ ready' = [ready EXCEPT ![p] = [gen |-> workerRec[r.worker].gen,
                                             start |-> monotonic, how |-> "cached",
                                             status |-> st, served |-> peer[r.worker]]]
           /\ IF HealthPasses(st) THEN cr' = [cr EXCEPT ![p].pc = "d_call", ![p].req = r]
              ELSE Return(p, Resp(503, "worker_unreachable"))
    ELSE /\ ready' = [ready EXCEPT ![p] = [NoReady EXCEPT !.gen = workerRec[r.worker].gen,
                                                         !.start = monotonic,
                                                         !.how = "probed"]]
         /\ cr' = [cr EXCEPT ![p].pc = "d_probe", ![p].req = r]

\* environments.py 491-537 and 636-681: validation up to the first transaction
CreateBegin(p, requests) ==
    /\ cr[p].pc = "idle"
    /\ \E r \in requests :
        IF UpFrontCheck(r) # NoResp
          THEN Return(p, UpFrontCheck(r)) /\ UNCHANGED ready
        ELSE IF r.worker # HostScope
          THEN AssertWorkerIsReady(p, r)
        ELSE IF LocalPrecheck(r) # NoResp
          THEN Return(p, LocalPrecheck(r)) /\ UNCHANGED ready
        ELSE IF CustomPrecheck(r) # NoResp
          THEN Return(p, CustomPrecheck(r)) /\ UNCHANGED ready
        ELSE cr' = [cr EXCEPT ![p].pc = "l_txn", ![p].req = r] /\ UNCHANGED ready
    /\ UNCHANGED <<storeVars, container, lock, remote, remoteDeletes, task, startPc,
                   ticketVars, healthVars, auxVars, peer, remoteEnv, opResp, readErr, regVars>>

\* worker_registry.py 233-251 and environments.py 313-319: the probe of the
\* readiness check returns, its result is cached under the call's start time, and
\* a healthy worker is sent the remote create
DelegatedProbe(p) ==
    /\ cr[p].pc = "d_probe"
    /\ LET w == cr[p].req.worker
           st == CheckWorkerHealth(RequestWorkerHealth(peer[w]))
       IN /\ CacheStore(w, [status |-> st, gen |-> ready[p].gen], ready[p].start)
          /\ ready' = [ready EXCEPT ![p].status = st, ![p].served = peer[w]]
          /\ IF HealthPasses(st) THEN Goto(p, "d_call")
             ELSE Return(p, Resp(503, "worker_unreachable"))
    /\ UNCHANGED <<storeVars, container, lock, remote, remoteDeletes, task, startPc,
                   ticketVars, monotonic, workerRec, rf, upd, auxVars, peer, remoteEnv,
                   opResp, readErr, regVars>>

\* the GPU indices the transaction settles on (environments.py 694-718)
GpuIndices(r, total) ==
    IF r.selected # <<>> THEN Range(r.selected)
    ELSE IF r.gpu_count > 0
        THEN FirstN((0 .. total - 1) \ CollectUsedGpuIndices(r.worker), r.gpu_count)
    ELSE {}
GpuChosen(r) == GpuIndices(r, TotalGpus)
GpuRecheck(r, total) ==
    IF r.selected # <<>> THEN Range(r.selected) \cap CollectUsedGpuIndices(r.worker) # {}
    ELSE /\ r.gpu_count > 0
         /\ Cardinality((0 .. total - 1) \ CollectUsedGpuIndices(r.worker)) < r.gpu_count
GpuConflict(r) == GpuRecheck(r, TotalGpus)

\* variant: the jupyter_token setting is written before the transaction begins
LocalTxnTokenFirst(p) ==
    /\ cr[p].pc = "l_txn"
    /\ lock = 0
    /\ tokenKeys' = tokenKeys \cup {p}
    /\ IF GpuConflict(cr[p].req)
         THEN Return(p, Resp(409, "gpu_already_allocated")) /\ UNCHANGED lock
       ELSE IF AllocatePorts = {}
         THEN Return(p, Resp(503, "port_allocation_failed")) /\ UNCHANGED lock
       ELSE \E t \in AllocatePorts :
              /\ cr' = [cr EXCEPT ![p].pc = "l_flush",
                                  ![p].pend = [gpu |-> GpuChosen(cr[p].req), ssh |-> t[1],
                                               jup |-> t[2], code |-> t[3],
                                               status |-> "creating"]]
              /\ lock' = p
    /\ UNCHANGED <<envs, customSetting, container, remote, remoteDeletes, task, startPc,
                   ticketVars, healthVars, auxVars, extVars>>

\* environments.py 685-747: db.begin(), the advisory lock, the GPU re-check and
\* the port allocation of one attempt of the retry loop
LocalTxn(p) ==
    /\ cr[p].pc = "l_txn"
    /\ lock = 0
    /\ IF GpuConflict(cr[p].req)
         THEN Return(p, Resp(409, "gpu_already_allocated")) /\ UNCHANGED lock
       ELSE IF AllocatePorts = {}
         THEN Return(p, Resp(503, "port_allocation_failed")) /\ UNCHANGED lock
       ELSE \E t \in AllocatePorts :
              /\ cr' = [cr EXCEPT ![p].pc = "l_flush",
                                  ![p].pend = [gpu |-> GpuChosen(cr[p].req), ssh |-> t[1],
                                               jup |-> t[2], code |-> t[3],
                                               status |-> "creating"]]
              /\ lock' = p
    /\ UNCHANGED <<storeVars, container, remote, remoteDeletes, task, startPc,
                   ticketVars, healthVars, auxVars, extVars>>

NewRow(p, w) ==
    [name |-> cr[p].req.name, worker |-> w, status |-> cr[p].pend.status,
     gpu |-> cr[p].pend.gpu, ssh |-> cr[p].pend.ssh, jup |-> cr[p].pend.jup,
     code |-> cr[p].pend.code, enable_jupyter |-> cr[p].req.enable_jupyter,
     enable_code_server |-> cr[p].req.enable_code_server]

\* variant: a retry loop without the bound
LocalIntegrityErrorUnbounded(p, isName) ==
    IF isName THEN Return(p, Resp(409, "duplicate_environment_name"))
    ELSE cr' = [cr EXCEPT ![p].pc = "l_txn", ![p].pend = NoPend, ![p].attempts = @ + 1]

\* the except IntegrityError branch of the local retry loop (756-771)
LocalIntegrityError(p, isName) ==
    IF isName THEN Return(p, Resp(409, "duplicate_environment_name"))
    ELSE IF cr[p].attempts + 1 >= MAX_PORT_ALLOCATION_RETRIES
      THEN cr' = [cr EXCEPT ![p] = [pc |-> "done", req |-> NoReq, pend |-> NoPend,
                                    attempts |-> cr[p].attempts + 1,
                                    resp |-> Resp(503, "port_allocation_failed")]]
    ELSE cr' = [cr EXCEPT ![p].pc = "l_txn", ![p].pend = NoPend,
                          ![p].attempts = @ + 1]

\* environments.py 748-755: flush of the row and its side records, commit
LocalFlush(p) ==
    /\ cr[p].pc = "l_flush"
    /\ lock' = 0
    /\ \/ /\ NameUniqueViolation(cr[p].req.name)
          /\ LocalIntegrityError(p, TRUE)
          /\ UNCHANGED storeVars
       \/ /\ PortUniqueViolation(cr[p].pend)
          /\ LocalIntegrityError(p, FALSE)
          /\ UNCHANGED storeVars
       \/ /\ ~NameUniqueViolation(cr[p].req.name)
          /\ ~PortUniqueViolation(cr[p].pend)
          /\ envs' = envs @@ (p :> NewRow(p, HostScope))
          /\ tokenKeys' = tokenKeys \cup {p}
          /\ customSetting' = customSetting @@ (p :> cr[p].req.custom)
          /\ cr' = [cr EXCEPT ![p].pc = "enqueue", ![p].req = NoReq, ![p].pend = NoPend]
    /\ UNCHANGED <<container, remote, remoteDeletes, task, startPc, ticketVars, healthVars,
                   auxVars, extVars>>

SetStatus(e, s) ==
    envs' = IF e \in Rows THEN [envs EXCEPT ![e].status = s] ELSE envs

DeleteRowAndSideRecords(e) ==
    /\ envs' = RemoveKey(envs, e)
    /\ tokenKeys' = tokenKeys \ {e}
    /\ customSetting' = RemoveKey(customSetting, e)

\* environments.py 773-775: create_environment_task.delay
Enqueue(p) ==
    /\ cr[p].pc = "enqueue"
    /\ \/ /\ task' = [task EXCEPT ![p].pc = "queued"]
          /\ Goto(p, "post")
       \/ /\ Goto(p, "comp_delete")
          /\ UNCHANGED task
    /\ UNCHANGED <<storeVars, container, lock, remote, remoteDeletes, startPc,
                   ticketVars, healthVars, auxVars, extVars>>

\* environments.py 776-797: the compensating delete transaction.  The DELETEs
\* are flushed when the block commits, after compensation_done was set.
CompensateDelete(p) ==
    /\ cr[p].pc = "comp_delete"
    /\ \/ /\ DeleteRowAndSideRecords(p)
          /\ Return(p, Resp(503, "task_enqueue_failed"))
       \/ \* a query of the block raises: compensation_done stays False
          /\ Goto(p, "comp_mark")
          /\ UNCHANGED storeVars
       \/ \* the commit on leaving the block raises: compensation_done is True
          /\ Return(p, Resp(503, "task_enqueue_failed"))
          /\ UNCHANGED storeVars
    /\ UNCHANGED <<container, lock, remote, remoteDeletes, task, startPc,
                   ticketVars, healthVars, auxVars, extVars>>

\* environments.py 799-815: mark the row error when the delete did not complete
CompensateMark(p) ==
    /\ cr[p].pc = "comp_mark"
    /\ \/ SetStatus(p, "error")
       \/ UNCHANGED envs
    /\ Return(p, Resp(503, "task_enqueue_failed"))
    /\ UNCHANGED <<customSetting, tokenKeys, container, lock, remote, remoteDeletes,
                   task, startPc, ticketVars, healthVars, auxVars, extVars>>

\* environments.py 817-826: advance the row to building and answer 201
PostEnqueue(p) ==
    /\ cr[p].pc = "post"
    /\ SetStatus(p, "building")
    /\ Return(p, Resp(201, "created"))
    /\ UNCHANGED <<customSetting, tokenKeys, container, lock, remote, remoteDeletes,
                   task, startPc, ticketVars, healthVars, auxVars, extVars>>

(* -------------------- create_environment, delegated -------------------- *)
WorkerErrors == {Resp(404, "worker_not_found"), Resp(503, "worker_unreachable"),
                 Resp(503, "worker_request_failed")}
\* the 2xx answers of the worker's create a specification draws from
AnswersOf(ids, gpus, statuses, customs) ==
    {[idOk |-> i, gpu |-> g, status |-> st, custom |-> c] :
        i \in ids, g \in gpus, st \in statuses, c \in customs}

\* the body a peer answers to POST /api/worker/environments when it created the
\* environment described by a; this program wraps it (worker_api.py 138-150, 36-46)
CreateBody(kind, a) ==
    LET data == [id |-> IF a.idOk \/ kind = "lyra" THEN "uuid" ELSE "",
                 status |-> a.status, gpu_indices |-> a.gpu, custom_ports |-> a.custom]
    IN IF kind = "lyra" THEN Ok(data, "Environment created") ELSE data

\* environments.py 549-574 and 601: what create_environment reads in the body
ParseCreateAnswer(body) ==
    [idOk |-> Get(body, "id") = "uuid",
     gpu |-> IF "gpu_indices" \in DOMAIN body THEN body.gpu_indices ELSE <<>>,
     status |-> IF Get(body, "status") # "" THEN body.status ELSE "building",
     custom |-> IF "custom_ports" \in DOMAIN body THEN body.custom_ports ELSE <<>>]

\* environments.py 539-576: the remote create call returns and its answer is
\* parsed.  What the worker created is an input.
DelegatedCall(p, answers) ==
    /\ cr[p].pc = "d_call"
    /\ \/ \* call_worker_api raised
          /\ \E r \in WorkerErrors : Return(p, r)
          /\ UNCHANGED <<remote, remoteEnv>>
       \/ \* the worker created the environment and answered 2xx
          /\ peer[cr[p].req.worker] \in {"flat", "lyra"}
          /\ remote' = [remote EXCEPT ![p] = TRUE]
          /\ \E created \in answers :
               /\ remoteEnv' = [remoteEnv EXCEPT ![p] =
                                  [by |-> peer[cr[p].req.worker], worker |-> cr[p].req.worker,
                                   status |-> created.status, gpu |-> created.gpu]]
               /\ LET a == ParseCreateAnswer(CreateBody(peer[cr[p].req.worker], created))
                      custom == IF a.custom # <<>> THEN a.custom ELSE cr[p].req.custom
                      gpu == IF a.gpu # <<>> THEN a.gpu ELSE cr[p].req.selected
                  IN IF ~a.idOk
                       THEN Return(p, Resp(502, "worker_api_mismatch"))
                     ELSE IF ValidateCustomPorts(custom) # ""
                       THEN Return(p, Resp(400, ValidateCustomPorts(custom)))
                     ELSE cr' = [cr EXCEPT ![p].pc = "d_txn",
                                           ![p].req.custom = custom,
                                           ![p].pend = [NoPend EXCEPT !.gpu = Range(gpu),
                                                                      !.status = a.status]]
    /\ UNCHANGED <<storeVars, container, lock, remoteDeletes, task, startPc,
                   ticketVars, healthVars, auxVars, peer, ready, opResp, readErr, regVars>>

\* variant: the exception leaves the handler without the cleanup
DelegatedFailNoCleanup(p, r) == Return(p, r)

\* leave the try block of 578-633 with an exception: cleanup runs next
DelegatedFail(p, r) ==
    cr' = [cr EXCEPT ![p] = [pc |-> "d_cleanup", req |-> NoReq, pend |-> NoPend,
                             attempts |-> cr[p].attempts, resp |-> r]]

\* environments.py 580-602: db.begin() and the surrogate port allocation
DelegatedTxn(p) ==
    /\ cr[p].pc = "d_txn"
    /\ IF AllocateRemoteSurrogatePorts = {}
         THEN DelegatedFail(p, Resp(503, "no_available_host_ports"))
       ELSE \E t \in AllocateRemoteSurrogatePorts :
              cr' = [cr EXCEPT ![p].pc = "d_flush", ![p].pend.ssh = t[1],
                               ![p].pend.jup = t[2], ![p].pend.code = t[3]]
    /\ UNCHANGED <<storeVars, container, lock, remote, remoteDeletes, task, startPc,
                   ticketVars, healthVars, auxVars, extVars>>

\* environments.py 603-626: flush and commit of the shadow row, the
\* IntegrityError branches and the exhausted retry loop
DelegatedFlush(p) ==
    /\ cr[p].pc = "d_flush"
    /\ \/ /\ NameUniqueViolation(cr[p].req.name)
          /\ DelegatedFail(p, Resp(409, "duplicate_environment_name"))
          /\ UNCHANGED <<envs, customSetting>>
       \/ /\ PortUniqueViolation(cr[p].pend)
          /\ IF cr[p].attempts + 1 >= MAX_PORT_ALLOCATION_RETRIES
               THEN cr' = [cr EXCEPT ![p] = [pc |-> "d_cleanup", req |-> NoReq,
                                             pend |-> NoPend,
                                             attempts |-> cr[p].attempts + 1,
                                             resp |-> Resp(503, "port_allocation_failed")]]
             ELSE cr' = [cr EXCEPT ![p].pc = "d_txn", ![p].attempts = @ + 1]
          /\ UNCHANGED <<envs, customSetting>>
       \/ \* any other database error: re-raised
          /\ DelegatedFail(p, Resp(500, "internal_error"))
          /\ UNCHANGED <<envs, customSetting>>
       \/ /\ ~NameUniqueViolation(cr[p].req.name)
          /\ ~PortUniqueViolation(cr[p].pend)
          /\ workerRec[cr[p].req.worker].exists    \* the foreign key
          /\ envs' = envs @@ (p :> NewRow(p, cr[p].req.worker))
          /\ customSetting' = customSetting @@ (p :> cr[p].req.custom)
          /\ Return(p, Resp(201, "created"))
    /\ UNCHANGED <<tokenKeys, container, lock, remote, remoteDeletes, task, startPc,
                   ticketVars, healthVars, auxVars, extVars>>

\* environments.py 557-569 and 631-633: _cleanup_remote_environment, then re-raise
DelegatedCleanup(p) ==
    /\ cr[p].pc = "d_cleanup"
    /\ remoteDeletes' = [remoteDeletes EXCEPT ![p] = @ + 1]
    /\ \/ remote' = [remote EXCEPT ![p] = FALSE]
       \/ UNCHANGED remote    \* WorkerRequestError: logged, swallowed
    /\ Goto(p, "done")
    /\ UNCHANGED <<storeVars, container, lock, task, startPc, ticketVars, healthVars,
                   auxVars, extVars>>

(* ----------------------- create_environment_task ----------------------- *)
CUSTOM_HOST_PORT_RANGE == 35001 .. (35001 + PortWidth - 1)

\* tasks.py 124-156: _allocate_ports(db, exclude_environment_id)
TaskAllocatePorts(e) ==
    LET blocked ==
          UNION {{envs[x].ssh, envs[x].jup, envs[x].code} : x \in Rows \ {e}}
            \cup UNION {HostPortsOf(customSetting[x]) : x \in DOMAIN customSetting}
            \cup DockerUsedPorts
    IN {t \in SshRange \X JupyterRange \X CodeRange :
          /\ t[1] \notin blocked
          /\ t[2] \notin blocked \cup {t[1]}
          /\ t[3] \notin blocked \cup {t[1], t[2]}}

\* tasks.py 159-188: _allocate_custom_host_ports; the query autoflushes the
\* ports the task has just assigned to its own row
TaskBlockedCustom(e, t) ==
    DockerUsedPorts
      \cup UNION {{envs[x].ssh, envs[x].jup, envs[x].code} : x \in Rows \ {e}}
      \cup {t[1], t[2], t[3]}
      \cup UNION {HostPortsOf(customSetting[x]) : x \in DOMAIN customSetting \ {e}}

\* the lists of n distinct free custom host ports the random picks can produce
RECURSIVE PickHostPorts(_, _)
PickHostPorts(free, n) ==
    IF n = 0 THEN {<<>>}
    ELSE UNION {{<<h>> \o rest : rest \in PickHostPorts(free \ {h}, n - 1)} : h \in free}

Remap(s, hs) == [i \in DOMAIN s |-> [s[i] EXCEPT !.host_port = hs[i]]]

TaskEnd(e) == task' = [task EXCEPT ![e] = [pc |-> "done", attempt |-> 0]]

\* tasks.py 194-202
TaskStart(e) ==
    /\ task[e].pc = "queued"
    /\ IF e \in Rows
         THEN SetStatus(e, "building") /\ task' = [task EXCEPT ![e].pc = "build"]
       ELSE UNCHANGED envs /\ TaskEnd(e)
    /\ UNCHANGED <<customSetting, tokenKeys, container, lock, cr, remote,
                   remoteDeletes, startPc, ticketVars, healthVars, auxVars, extVars>>

\* tasks.py 209-228: image build
TaskBuild(e) ==
    /\ task[e].pc = "build"
    /\ \/ SetStatus(e, "error") /\ TaskEnd(e)
       \/ UNCHANGED envs /\ task' = [task EXCEPT ![e].pc = "run"]
    /\ UNCHANGED <<customSetting, tokenKeys, container, lock, cr, remote,
                   remoteDeletes, startPc, ticketVars, healthVars, auxVars, extVars>>

\* tasks.py 307-311: containers.run succeeds
TaskRunOk(e) ==
    /\ task[e].pc = "run"
    /\ container' = [container EXCEPT ![e] = "running"]
    /\ task' = [task EXCEPT ![e].pc = "finish"]
    /\ UNCHANGED <<storeVars, lock, cr, remote, remoteDeletes, startPc,
                   ticketVars, healthVars, auxVars, extVars>>

\* tasks.py 312-316 and 336-339: containers.run raises and the task gives up
TaskRunError(e) ==
    /\ task[e].pc = "run"
    /\ SetStatus(e, "error")
    /\ TaskEnd(e)
    /\ UNCHANGED <<customSetting, tokenKeys, container, lock, cr, remote,
                   remoteDeletes, startPc, ticketVars, healthVars, auxVars, extVars>>

\* tasks.py 312-329: a port conflict that is not the last attempt: fresh ports
\* for the row and its custom mappings, committed outside the advisory lock
TaskReallocate(e) ==
    /\ task[e].pc = "run"
    /\ task[e].attempt < CONTAINER_RUN_PORT_RETRIES - 1
    /\ e \in Rows
    /\ IF TaskAllocatePorts(e) = {}
         THEN SetStatus(e, "error") /\ TaskEnd(e) /\ UNCHANGED customSetting
       ELSE \E t \in TaskAllocatePorts(e) :
              LET cur == IF e \in DOMAIN customSetting THEN customSetting[e] ELSE <<>>
                  free == CUSTOM_HOST_PORT_RANGE \ TaskBlockedCustom(e, t)
              IN IF Cardinality(free) < Len(cur)
                   THEN SetStatus(e, "error") /\ TaskEnd(e) /\ UNCHANGED customSetting
                 ELSE /\ envs' = [envs EXCEPT ![e].ssh = t[1], ![e].jup = t[2],
                                              ![e].code = t[3]]
                      /\ \E hs \in PickHostPorts(free, Len(cur)) :
                           customSetting' = IF cur = <<>> THEN customSetting
                                            ELSE [customSetting EXCEPT ![e] = Remap(cur, hs)]
                      /\ task' = [task EXCEPT ![e].attempt = @ + 1]
    /\ UNCHANGED <<tokenKeys, container, lock, cr, remote, remoteDeletes, startPc,
                   ticketVars, healthVars, auxVars, extVars>>

\* tasks.py 331-334
TaskFinish(e) ==
    /\ task[e].pc = "finish"
    /\ SetStatus(e, "running")
    /\ TaskEnd(e)
    /\ UNCHANGED <<customSetting, tokenKeys, container, lock, cr, remote,
                   remoteDeletes, startPc, ticketVars, healthVars, auxVars, extVars>>

(* ------------------------- start / stop / delete ----------------------- *)
\* refresh_worker_health(db, worker, persist=False) made and returned now: the
\* status it returns, and the cache entry it stores on a miss
RefreshNow(w) ==
    IF CacheFresh(w, monotonic) THEN worker_health_cache[w].result.status
    ELSE CheckWorkerHealth(RequestWorkerHealth(peer[w]))
RefreshNowStore(w) ==
    IF CacheFresh(w, monotonic) THEN UNCHANGED worker_health_cache
    ELSE CacheStore(w, [status |-> RefreshNow(w), gen |-> workerRec[w].gen], monotonic)

\* the request on environment e is answered
Answer(e, op, status, message) ==
    opResp' = [env |-> e, op |-> op, status |-> status, message |-> message]
\* how the container runtime behaves for one request: it works, docker.from_env()
\* raises, or the call on the container raises
DockerOutcomes == {"ok", "unavailable", "error"}

\* environments.py 1503-1517 and 1552-1566: start or stop proxied to the worker;
\* called_ok tells whether call_worker_api returns
ProxyToWorker(e, op, done_status, called_ok) ==
    LET w == envs[e].worker IN
    IF ~workerRec[w].exists
      THEN Answer(e, op, 404, "") /\ UNCHANGED <<envs, worker_health_cache>>
    ELSE /\ RefreshNowStore(w)
         /\ IF ~HealthPasses(RefreshNow(w)) THEN Answer(e, op, 503, "") /\ UNCHANGED envs
            ELSE IF called_ok /\ peer[w] \in {"flat", "lyra"}
              THEN SetStatus(e, done_status) /\ Answer(e, op, 200, "worker")
            ELSE SetStatus(e, "error") /\ Answer(e, op, 503, "")

\* environments.py 1503-1517: start of a delegated environment
StartDelegated(e, called_ok) ==
    /\ e \in Rows /\ envs[e].worker # HostScope
    /\ ProxyToWorker(e, "start", "running", called_ok)
    /\ UNCHANGED <<customSetting, tokenKeys, container, lock, cr, remote,
                   remoteDeletes, task, startPc, ticketVars, monotonic, workerRec, rf, upd,
                   auxVars, peer, ready, remoteEnv, readErr, regVars>>

\* variant: the container is started whatever its status is
StartLookupAlwaysStarts(e, docker) ==
    IF docker = "unavailable"
      THEN Answer(e, "start", 500, "") /\ UNCHANGED <<envs, startPc>>
    ELSE IF docker = "error"
      THEN SetStatus(e, "error") /\ Answer(e, "start", 500, "") /\ UNCHANGED startPc
    ELSE IF container[e] = "none"
      THEN SetStatus(e, "error") /\ Answer(e, "start", 409, "") /\ UNCHANGED startPc
    ELSE /\ SetStatus(e, "starting")
         /\ startPc' = [startPc EXCEPT ![e] = "starting"]
         /\ UNCHANGED opResp

\* environments.py 1519-1530 and 1535-1542: docker.from_env(), which is outside the
\* try block, and the container lookup of a local start
StartLookup(e, docker) ==
    IF docker = "unavailable"
      THEN Answer(e, "start", 500, "") /\ UNCHANGED <<envs, startPc>>
    ELSE IF docker = "error"
      THEN SetStatus(e, "error") /\ Answer(e, "start", 500, "") /\ UNCHANGED startPc
    ELSE IF container[e] = "none"
      THEN SetStatus(e, "error") /\ Answer(e, "start", 409, "") /\ UNCHANGED startPc
    ELSE IF container[e] = "running"
      THEN SetStatus(e, "running") /\ Answer(e, "start", 200, "already running") /\ UNCHANGED startPc
    ELSE /\ SetStatus(e, "starting")
         /\ startPc' = [startPc EXCEPT ![e] = "starting"]
         /\ UNCHANGED opResp

StartBegin(e, docker) ==
    /\ e \in Rows /\ envs[e].worker = HostScope
    /\ startPc[e] = "idle"
    /\ StartLookup(e, docker)
    /\ UNCHANGED <<customSetting, tokenKeys, container, lock, cr, remote,
                   remoteDeletes, task, ticketVars, healthVars, auxVars,
                   peer, ready, remoteEnv, readErr, regVars>>

\* environments.py 1531-1542: container.start() and the final status
StartFinish(e, docker) ==
    /\ startPc[e] = "starting"
    /\ startPc' = [startPc EXCEPT ![e] = "idle"]
    /\ IF docker = "ok" /\ container[e] # "none"
         THEN /\ container' = [container EXCEPT ![e] = "running"]
              /\ SetStatus(e, "running")
              /\ Answer(e, "start", 200, "started")
       ELSE SetStatus(e, "error") /\ Answer(e, "start", 500, "") /\ UNCHANGED container
    /\ UNCHANGED <<customSetting, tokenKeys, lock, cr, remote, remoteDeletes, task,
                   ticketVars, healthVars, auxVars, peer, ready, remoteEnv, readErr, regVars>>

\* environments.py 1552-1589: stop, proxied for a delegated environment
StopEnvironment(e, docker, called_ok) ==
    /\ e \in Rows
    /\ IF envs[e].worker # HostScope
         THEN ProxyToWorker(e, "stop", "stopping", called_ok) /\ UNCHANGED container
       ELSE /\ UNCHANGED worker_health_cache
            /\ IF docker = "unavailable"
                 THEN Answer(e, "stop", 500, "") /\ UNCHANGED <<envs, container>>
               ELSE IF container[e] = "none"
                 THEN SetStatus(e, "stopped") /\ Answer(e, "stop", 200, "not found")
                        /\ UNCHANGED container
               ELSE IF docker = "error"
                 THEN SetStatus(e, "error") /\ Answer(e, "stop", 500, "") /\ UNCHANGED container
               ELSE IF container[e] # "running"
                 THEN SetStatus(e, "stopped") /\ Answer(e, "stop", 200, "already stopped")
                        /\ UNCHANGED container
               ELSE /\ SetStatus(e, "stopping")
                    /\ container' = [container EXCEPT ![e] = "exited"]
                    /\ Answer(e, "stop", 200, "stopping")
    /\ UNCHANGED <<customSetting, tokenKeys, lock, cr, remote, remoteDeletes, task,
                   startPc, ticketVars, monotonic, workerRec, rf, upd, auxVars,
                   peer, ready, remoteEnv, readErr, regVars>>

\* environments.py 1386-1493: remote delete (delegated), container removal,
\* then the side records and the row
DeleteEnvironment(e) ==
    /\ e \in Rows
    /\ container' = [container EXCEPT ![e] = "none"]
    /\ remote' = IF envs[e].worker # HostScope THEN [remote EXCEPT ![e] = FALSE] ELSE remote
    /\ DeleteRowAndSideRecords(e)
    /\ UNCHANGED <<lock, cr, remoteDeletes, task, startPc, ticketVars, healthVars, auxVars, extVars>>

\* environments.py 748-755 and 603-612, as seen from a request in its retry loop:
\* another session commits the row and side records of another environment, with
\* the GPUs and ports its own allocation picked among those free in the committed
\* rows.  Such rows come and go (DeleteEnvironment) any number of times while the
\* request runs.
RivalInsert(e, scope, gpu) ==
    /\ e \notin Rows
    /\ cr[e].pc = "idle"
    /\ ~NameUniqueViolation("b")
    /\ gpu \cap CollectUsedGpuIndices(scope) = {}
    /\ \E t \in AllocatePorts \cup AllocateRemoteSurrogatePorts :
         envs' = envs @@ (e :> [name |-> "b", worker |-> scope, status |-> "creating",
                                gpu |-> gpu, ssh |-> t[1], jup |-> t[2], code |-> t[3],
                                enable_jupyter |-> TRUE, enable_code_server |-> TRUE])
    /\ tokenKeys' = tokenKeys \cup {e}
    /\ customSetting' = customSetting @@ (e :> <<>>)
    /\ UNCHANGED <<container, lock, cr, remote, remoteDeletes, task, startPc, ticketVars,
                   healthVars, auxVars, extVars>>

\* a container that belongs to no environment is started or removed on the host:
\* the host ports such containers bind are now ports
ForeignContainers(ports) ==
    /\ foreignPorts' = ports
    /\ UNCHANGED <<allocVars, ticketVars, healthVars, auxVars, peer, ready, remoteEnv,
                   opResp, readErr, wtab, wreq, hc, wcall, gp>>

\* the GPU allocation of create_environment for a host-managed environment, on a
\* host with gp.total GPUs.  environments.py 636-666: the up-front checks
GpuPickCheck ==
    /\ gp.pc = "idle"
    /\ gp.total > 0
    /\ gp' = IF GpuPrecheck(gp.req, gp.total) # NoResp
               THEN [gp EXCEPT !.pc = "done", !.resp = GpuPrecheck(gp.req, gp.total)]
             ELSE [gp EXCEPT !.pc = "txn"]
    /\ UNCHANGED <<allocVars, ticketVars, healthVars, auxVars, peer, ready, remoteEnv,
                   opResp, readErr, wtab, wreq, hc, wcall, foreignPorts>>

\* environments.py 694-755: the re-check under the lock and the insert of the row
GpuPickInsert(p) ==
    /\ gp.pc = "txn"
    /\ p \notin Rows
    /\ ~NameUniqueViolation(gp.req.name)
    /\ AllocatePorts # {}
    /\ IF GpuRecheck(gp.req, gp.total)
         THEN /\ gp' = [gp EXCEPT !.pc = "done", !.resp = Resp(409, "gpu_already_allocated")]
              /\ UNCHANGED storeVars
       ELSE LET t == CHOOSE x \in AllocatePorts : TRUE IN
            /\ gp' = [gp EXCEPT !.pc = "done", !.resp = Resp(201, "created")]
            /\ envs' = envs @@ (p :> [name |-> gp.req.name, worker |-> HostScope,
                                      status |-> "creating",
                                      gpu |-> GpuIndices(gp.req, gp.total),
                                      ssh |-> t[1], jup |-> t[2], code |-> t[3],
                                      enable_jupyter |-> gp.req.enable_jupyter,
                                      enable_code_server |-> gp.req.enable_code_server])
            /\ tokenKeys' = tokenKeys \cup {p}
            /\ customSetting' = customSetting @@ (p :> gp.req.custom)
    /\ UNCHANGED <<container, lock, cr, remote, remoteDeletes, task, startPc, ticketVars,
                   healthVars, auxVars, peer, ready, remoteEnv, opResp, readErr,
                   wtab, wreq, hc, wcall, foreignPorts>>

(* ----------------------------- launch tickets -------------------------- *)
TicketDict(kind) ==
    IF kind = "jupyter" THEN jupyter_launch_tickets ELSE code_launch_tickets
LaunchTtl(kind) ==
    IF kind = "jupyter" THEN JUPYTER_LAUNCH_TTL_SECONDS ELSE CODE_LAUNCH_TTL_SECONDS

\* _cleanup_expired_jupyter_tickets / _cleanup_expired_code_tickets: the dict
\* without the tickets that are used or whose expiry lies before now
CleanupExpiredTickets(dict, now) ==
    {t \in dict : ~(ticketMeta[t].used \/ ticketMeta[t].expires_at < now)}

SetTicketDict(kind, d) ==
    /\ jupyter_launch_tickets' = IF kind = "jupyter" THEN d ELSE jupyter_launch_tickets
    /\ code_launch_tickets' = IF kind = "code" THEN d ELSE code_launch_tickets

\* _is_host_environment_running_now
IsHostEnvironmentRunningNow(e) == container[e] = "running"

\* env.enable_jupyter / env.enable_code_server
ServiceEnabled(kind, e) ==
    IF kind = "jupyter" THEN envs[e].enable_jupyter ELSE envs[e].enable_code_server

\* create_jupyter_launch_url / create_code_launch_url, when a ticket is issued
CreateLaunchUrl(kind, e) ==
    /\ Len(ticketMeta) < MaxTickets
    /\ e \in Rows
    /\ ServiceEnabled(kind, e)
    /\ IF envs[e].worker # HostScope
         THEN UNCHANGED envs      \* the worker answered with a launch url
       ELSE /\ envs[e].status = "running" \/ IsHostEnvironmentRunningNow(e)
            /\ kind = "jupyter" => e \in tokenKeys
            /\ SetStatus(e, "running")
    /\ ticketMeta' = Append(ticketMeta,
                            [kind |-> kind, env |-> e,
                             expires_at |-> wallClock + LaunchTtl(kind), used |-> FALSE,
                             remote |-> envs[e].worker # HostScope])
    /\ SetTicketDict(kind, CleanupExpiredTickets(TicketDict(kind), wallClock)
                             \cup {Len(ticketMeta) + 1})
    /\ UNCHANGED <<customSetting, tokenKeys, container, lock, cr, remote, remoteDeletes,
                   task, startPc, wallClock, rd, healthVars, auxVars, extVars>>

RedeemDone(q, status) == rd' = [rd EXCEPT ![q].pc = "done", ![q].resp = status]
\* ticket_meta["used"] = True and the 307 redirect
RedeemRedirect(q) ==
    /\ ticketMeta' = [ticketMeta EXCEPT ![rd[q].ticket].used = TRUE]
    /\ RedeemDone(q, 307)

\* launch_*_with_ticket up to its first await: cleanup, lookup and the checks
\* of the ticket.  first, later and late record, for the properties, whether
\* this is the first redemption begun for the ticket, whether it begins after
\* a redemption of the ticket returned the redirect, and whether the TTL has
\* passed.
\* The second time.time() read may return a later instant than the first.
RedeemBegin(q, kind, t, e) ==
    /\ rd[q].pc = "idle"
    /\ t \in 1 .. Len(ticketMeta) /\ ticketMeta[t].kind = kind
    /\ LET cleaned == CleanupExpiredTickets(TicketDict(kind), wallClock)
           started == [rd[q] EXCEPT !.kind = kind, !.ticket = t, !.env = e,
                         !.first = \A o \in Redeemers : rd[o].ticket # t,
                         !.later = \E o \in Redeemers : /\ rd[o].ticket = t
                                                        /\ rd[o].pc = "done"
                                                        /\ rd[o].resp = 307,
                         !.late = ticketMeta[t].expires_at < wallClock]
       IN IF t \notin cleaned
            THEN /\ rd' = [rd EXCEPT ![q] = [started EXCEPT !.pc = "done", !.resp = 404]]
                 /\ SetTicketDict(kind, cleaned)
                 /\ UNCHANGED wallClock
          ELSE IF ticketMeta[t].used
            THEN /\ rd' = [rd EXCEPT ![q] = [started EXCEPT !.pc = "done", !.resp = 410]]
                 /\ SetTicketDict(kind, cleaned)
                 /\ UNCHANGED wallClock
          ELSE IF ticketMeta[t].env # e
            THEN /\ rd' = [rd EXCEPT ![q] = [started EXCEPT !.pc = "done", !.resp = 400]]
                 /\ SetTicketDict(kind, cleaned)
                 /\ UNCHANGED wallClock
          ELSE \E now2 \in {wallClock, wallClock + TicketTick} :
                 /\ now2 <= MaxWallClock
                 /\ wallClock' = now2
                 /\ IF ticketMeta[t].expires_at < now2
                      THEN /\ rd' = [rd EXCEPT ![q] = [started EXCEPT !.pc = "done",
                                                                     !.late = TRUE,
                                                                     !.resp = 410]]
                           /\ SetTicketDict(kind, cleaned \ {t})
                      ELSE /\ rd' = [rd EXCEPT ![q] = [started EXCEPT !.pc = "lookup"]]
                           /\ SetTicketDict(kind, cleaned)
    /\ UNCHANGED <<allocVars, ticketMeta, healthVars, auxVars, extVars>>

\* variant: the ticket is marked used before the checks of the environment
RedeemLookupMarksFirst(q) ==
    /\ rd[q].pc = "lookup"
    /\ ticketMeta' = [ticketMeta EXCEPT ![rd[q].ticket].used = TRUE]
    /\ LET e == rd[q].env
           t == rd[q].ticket
       IN IF e \notin Rows THEN RedeemDone(q, 404)
          ELSE IF ~ServiceEnabled(rd[q].kind, e) THEN RedeemDone(q, 409)
          ELSE IF envs[e].worker # HostScope /\ ticketMeta[t].remote THEN RedeemDone(q, 307)
          ELSE IF envs[e].status # "running" /\ ~IsHostEnvironmentRunningNow(e)
            THEN RedeemDone(q, 409)
          ELSE IF envs[e].status # "running" THEN rd' = [rd EXCEPT ![q].pc = "commit"]
          ELSE IF rd[q].kind = "jupyter" THEN rd' = [rd EXCEPT ![q].pc = "token"]
          ELSE RedeemDone(q, 307)
    /\ UNCHANGED <<allocVars, wallClock, jupyter_launch_tickets, code_launch_tickets,
                   healthVars, auxVars, extVars>>

\* after await db.execute: the checks of the environment
RedeemLookup(q) ==
    /\ rd[q].pc = "lookup"
    /\ LET e == rd[q].env
           t == rd[q].ticket
       IN IF e \notin Rows
            THEN RedeemDone(q, 404) /\ UNCHANGED ticketMeta
          ELSE IF ~ServiceEnabled(rd[q].kind, e)
            THEN RedeemDone(q, 409) /\ UNCHANGED ticketMeta
          ELSE IF envs[e].worker # HostScope /\ ticketMeta[t].remote
            THEN RedeemRedirect(q)
          ELSE IF envs[e].status # "running" /\ ~IsHostEnvironmentRunningNow(e)
            THEN RedeemDone(q, 409) /\ UNCHANGED ticketMeta
          ELSE IF envs[e].status # "running"
            THEN rd' = [rd EXCEPT ![q].pc = "commit"] /\ UNCHANGED ticketMeta
          ELSE IF rd[q].kind = "jupyter"
            THEN rd' = [rd EXCEPT ![q].pc = "token"] /\ UNCHANGED ticketMeta
          ELSE RedeemRedirect(q)
    /\ UNCHANGED <<allocVars, wallClock, jupyter_launch_tickets, code_launch_tickets,
                   healthVars, auxVars, extVars>>

\* env.status = "running"; await db.commit()
RedeemCommit(q) ==
    /\ rd[q].pc = "commit"
    /\ SetStatus(rd[q].env, "running")
    /\ IF rd[q].kind = "jupyter"
         THEN rd' = [rd EXCEPT ![q].pc = "token"] /\ UNCHANGED ticketMeta
       ELSE RedeemRedirect(q)
    /\ UNCHANGED <<customSetting, tokenKeys, container, lock, cr, remote, remoteDeletes,
                   task, startPc, wallClock, jupyter_launch_tickets, code_launch_tickets,
                   healthVars, auxVars, extVars>>

\* after await _get_jupyter_token
RedeemToken(q) ==
    /\ rd[q].pc = "token"
    /\ IF rd[q].env \notin tokenKeys
         THEN RedeemDone(q, 409) /\ UNCHANGED ticketMeta
       ELSE RedeemRedirect(q)
    /\ UNCHANGED <<allocVars, wallClock, jupyter_launch_tickets, code_launch_tickets,
                   healthVars, auxVars, extVars>>

\* time passes on the wall clock
TickWallClock ==
    /\ wallClock + TicketTick <= MaxWallClock
    /\ wallClock' = wallClock + TicketTick
    /\ UNCHANGED <<allocVars, ticketMeta, jupyter_launch_tickets, code_launch_tickets,
                   rd, healthVars, auxVars, extVars>>

(* --------------------------- refresh_worker_health --------------------- *)
\* refresh_worker_health up to its await: the caller has loaded the worker
\* record; a cache hit returns at once, a worker whose connection config cannot
\* be built is stored as misconfigured without a probe, otherwise the probe
\* (check_worker_health) is sent
RefreshBegin(r, w, use_cache, persist) ==
    /\ rf[r].pc = "idle"
    /\ workerRec[w].exists
    /\ LET started == [NoRefresh EXCEPT !.worker = w, !.gen = workerRec[w].gen,
                                        !.start = monotonic, !.use_cache = use_cache,
                                        !.persist = persist]
       IN IF use_cache /\ CacheFresh(w, monotonic)
            THEN /\ rf' = [rf EXCEPT ![r] = [started EXCEPT !.pc = "done", !.hit = TRUE,
                                               !.result = worker_health_cache[w].result]]
                 /\ UNCHANGED worker_health_cache
          ELSE \/ /\ rf' = [rf EXCEPT ![r] =
                              [started EXCEPT !.pc = "done", !.flushed = persist,
                                 !.result = [status |-> "misconfigured",
                                             gen |-> workerRec[w].gen]]]
                  /\ CacheStore(w, [status |-> "misconfigured", gen |-> workerRec[w].gen],
                                monotonic)
               \/ /\ rf' = [rf EXCEPT ![r] = [started EXCEPT !.pc = "probing",
                                                             !.probed = TRUE]]
                  /\ UNCHANGED worker_health_cache
    /\ UNCHANGED <<allocVars, ticketVars, monotonic, workerRec, upd, auxVars, extVars>>

\* the probe returns: the entry is stored under the call's start time
RefreshFinish(r) ==
    /\ rf[r].pc = "probing"
    /\ \E st \in ProbeStatuses :
         LET result == [status |-> st, gen |-> rf[r].gen]
         IN /\ CacheStore(rf[r].worker, result, rf[r].start)
            /\ rf' = [rf EXCEPT ![r].pc = "done", ![r].result = result,
                                ![r].flushed = rf[r].persist]
    /\ UNCHANGED <<allocVars, ticketVars, monotonic, workerRec, upd, auxVars, extVars>>

\* update_worker_server up to the await of its forced refresh: the record is
\* changed in the session and flushed, the probe runs against the new values
UpdateBegin(w) ==
    /\ upd.pc = "idle"
    /\ upd.count < MaxUpdates
    /\ workerRec[w].exists
    /\ upd' = [pc |-> "probing", gen |-> workerRec[w].gen + 1, start |-> monotonic,
               count |-> upd.count + 1]
    /\ UNCHANGED <<allocVars, ticketVars, monotonic, workerRec, worker_health_cache, rf,
                   auxVars, extVars>>

\* the forced refresh stores its entry, the update commits
UpdateFinish(w) ==
    /\ upd.pc = "probing"
    /\ \E st \in ProbeStatuses :
         CacheStore(w, [status |-> st, gen |-> upd.gen], upd.start)
    /\ workerRec' = [workerRec EXCEPT ![w].gen = upd.gen]
    /\ upd' = [upd EXCEPT !.pc = "idle"]
    /\ UNCHANGED <<allocVars, ticketVars, monotonic, rf, auxVars, extVars>>

\* worker_servers.py 245-260: the worker is looked up and the in-use check made
DeleteWorkerBegin(w) ==
    /\ wdel.pc = "idle"
    /\ upd.pc = "idle"
    /\ wdel' = IF ~workerRec[w].exists THEN [pc |-> "done", resp |-> 404]
               ELSE IF \E e \in Rows : envs[e].worker = w THEN [pc |-> "done", resp |-> 409]
               ELSE [pc |-> "checked", resp |-> 0]
    /\ UNCHANGED <<allocVars, ticketVars, healthVars, rsIn, rsOut, readResp, ssh, del, extVars>>

\* worker_servers.py 262-265: delete, commit, cache invalidation.  The foreign key
\* of environments.worker_server_id is ON DELETE SET NULL.
DeleteWorkerCommit(w) ==
    /\ wdel.pc = "checked"
    /\ wdel' = [pc |-> "done", resp |-> 204]
    /\ workerRec' = [workerRec EXCEPT ![w].exists = FALSE]
    /\ envs' = [e \in DOMAIN envs |->
                   IF envs[e].worker = w THEN [envs[e] EXCEPT !.worker = HostScope]
                   ELSE envs[e]]
    /\ InvalidateWorkerHealthCache(w)
    /\ UNCHANGED <<customSetting, tokenKeys, container, lock, cr, remote, remoteDeletes,
                   task, startPc, ticketVars, monotonic, rf, upd,
                   rsIn, rsOut, readResp, ssh, del, extVars>>

\* another server comes to answer at the worker's address, or none
PeerChange(w) ==
    /\ \E kind \in PeerKinds \ {peer[w]} : peer' = [peer EXCEPT ![w] = kind]
    /\ UNCHANGED <<allocVars, ticketVars, healthVars, auxVars, ready, remoteEnv,
                   opResp, readErr, regVars>>

\* time passes on the monotonic clock
TickMonotonic ==
    /\ monotonic + HealthTick <= MaxMonotonic
    /\ monotonic' = monotonic + HealthTick
    /\ UNCHANGED <<allocVars, ticketVars, workerRec, worker_health_cache, rf, upd, auxVars, extVars>>

(* ----------------------- _resolve_environment_status ---------------------- *)

\* State.ExitCode is a byte, or absent
MaxExitCode == 255

TransitionalStates == {"created", "restarting", "starting"}

\* the branch for a running container, keeping whatever status is recorded
ResolveRunningKeepsRecorded(current_status) == current_status

\* l.837-844: the container runs
ResolveRunning(current_status) ==
    IF current_status = "starting" THEN "running"
    ELSE IF current_status = "stopping" THEN "stopping"
    ELSE IF current_status # "running" THEN "running"
    ELSE current_status

\* the stopping branch, mapping the exit code like the steady branch does
ResolveStoppingByExitCode(state_status, exit_code) ==
    IF state_status \in TransitionalStates THEN "stopping"
    ELSE IF exit_code \in {ExitUnset, 0, 143} THEN "stopped"
    ELSE "error"

\* l.846-849: a stop is in progress
ResolveStopping(state_status, exit_code) ==
    IF state_status \in TransitionalStates THEN "stopping" ELSE "stopped"

\* the starting branch, taking every 137 for an error
ResolveStartingStrict137(state_status, exit_code, oom_killed, error_msg) ==
    IF state_status \in TransitionalStates /\ exit_code = ExitUnset THEN "starting"
    ELSE IF exit_code = ExitUnset THEN "stopped"
    ELSE IF exit_code \in {0, 143} THEN "stopped"
    ELSE "error"

\* l.851-863: a start is in progress
ResolveStarting(state_status, exit_code, oom_killed, error_msg) ==
    IF state_status \in TransitionalStates /\ exit_code = ExitUnset THEN "starting"
    ELSE IF exit_code = ExitUnset THEN "stopped"
    ELSE IF exit_code \in {0, 143} THEN "stopped"
    ELSE IF exit_code = 137
         THEN IF oom_killed \/ Strip(error_msg) # <<>> THEN "error" ELSE "stopped"
    ELSE "error"

\* l.865-872: steady state, container not running
ResolveSteady(exit_code, oom_killed, error_msg) ==
    IF exit_code = ExitUnset THEN "stopped"
    ELSE IF exit_code \in {0, 143} THEN "stopped"
    ELSE IF exit_code = 137
         THEN IF oom_killed \/ Strip(error_msg) # <<>> THEN "error" ELSE "stopped"
    ELSE "error"

\* l.829-872: the precedence of the four branches
ResolveEnvironmentStatus(current_status, container_status, state_status, exit_code, oom_killed, error_msg) ==
    IF container_status = "running" THEN ResolveRunning(current_status)
    ELSE IF current_status = "stopping" THEN ResolveStopping(state_status, exit_code)
    ELSE IF current_status = "starting"
         THEN ResolveStarting(state_status, exit_code, oom_killed, error_msg)
    ELSE ResolveSteady(exit_code, oom_killed, error_msg)

\* the arguments drawn: every recorded status, docker's container and state
\* statuses, every exit code or none, and State.Error texts as character sequences
ResolveArgs ==
    [current_status : {"creating", "building", "running", "starting", "stopping",
                       "stopped", "error"},
     container_status : {"running", "exited", "created"},
     state_status : {"created", "restarting", "starting", "running", "exited"},
     exit_code : {ExitUnset} \cup (0 .. MaxExitCode),
     oom_killed : BOOLEAN,
     error_msg : {<<>>, <<" ">>, <<" ", "\t">>, <<"o", "o", "m">>, <<" ", "x", " ">>}]

\* one call of _resolve_environment_status on the drawn arguments
ResolveCall ==
    /\ rsOut = ""
    /\ rsOut' = ResolveEnvironmentStatus(rsIn.current_status, rsIn.container_status,
                                         rsIn.state_status, rsIn.exit_code,
                                         rsIn.oom_killed, rsIn.error_msg)
    /\ UNCHANGED <<allocVars, ticketVars, healthVars, rsIn, readResp, ssh, del, wdel, extVars>>

\* the State of a container that exited with code 0
NoState == [exit_code |-> 0, oom_killed |-> FALSE, error_msg |-> <<>>]

\* worker_registry.py 298-333: the code of the WorkerRequestError call_worker_api
\* raises against a peer of this kind
CallErrorCode(kind) ==
    CASE kind = "down" -> "worker_unreachable"
      [] kind = "unauthorized" -> "worker_auth_failed"
      [] kind = "list" -> "worker_api_mismatch"
      [] OTHER -> "worker_request_failed"

\* worker_api.py 166-175: the body a peer answers to GET /api/worker/environments/{id}
ReadBody(kind, remote_status) ==
    IF kind = "lyra" THEN Ok([status |-> remote_status], "Environment loaded")
    ELSE [status |-> remote_status]

\* variant: a failed query reports the stored status
RemoteReadKeepsStored(kind, stored, remote_status, called_ok) ==
    IF called_ok /\ kind \in {"flat", "lyra"}
      THEN [status |-> IF Get(ReadBody(kind, remote_status), "status") = "" THEN stored
                       ELSE Get(ReadBody(kind, remote_status), "status"),
            code |-> ""]
    ELSE [status |-> stored, code |-> CallErrorCode(kind)]

\* environments.py 949-967 and 1048-1062: the remote status query and what the read
\* reports from it
RemoteRead(kind, stored, remote_status, called_ok) ==
    IF called_ok /\ kind \in {"flat", "lyra"}
      THEN [status |-> IF Get(ReadBody(kind, remote_status), "status") = "" THEN stored
                       ELSE Get(ReadBody(kind, remote_status), "status"),
            code |-> ""]
    ELSE [status |-> "unknown", code |-> CallErrorCode(kind)]

\* environments.py 983-1011 and 1068-1090: the status a read reports for a local
\* environment; lookup_ok is false when the client or the lookup raises an error
\* other than NotFound
LocalRead(e, lookup_ok, state) ==
    IF ~lookup_ok THEN envs[e].status
    ELSE IF container[e] = "none"
         THEN IF envs[e].status \in {"running", "stopping", "starting"}
              THEN "stopped" ELSE envs[e].status
    ELSE IF container[e] = "running"
         THEN ResolveEnvironmentStatus(envs[e].status, "running", "running", 0, FALSE, <<>>)
    ELSE ResolveEnvironmentStatus(envs[e].status, "exited", "exited",
                                  state.exit_code, state.oom_killed, state.error_msg)

\* environments.py 1043-1066: read_environment of a delegated environment
GetRemote(e, remote_status, called_ok) ==
    IF ~workerRec[envs[e].worker].exists
      THEN [status |-> "unknown", code |-> "worker_not_found"]
    ELSE RemoteRead(peer[envs[e].worker], envs[e].status, remote_status, called_ok)

\* environments.py 1029-1104: read_environment
ReadEnvironment(e, docker, state, remote_status, called_ok) ==
    /\ e \in Rows
    /\ readResp' = [readResp EXCEPT ![e] =
           IF envs[e].worker # HostScope THEN GetRemote(e, remote_status, called_ok).status
           ELSE LocalRead(e, docker = "ok", state)]
    /\ readErr' = [readErr EXCEPT ![e] =
           IF envs[e].worker # HostScope THEN GetRemote(e, remote_status, called_ok).code
           ELSE ""]
    /\ UNCHANGED <<allocVars, ticketVars, healthVars, rsIn, rsOut, ssh, del, wdel,
                   peer, ready, remoteEnv, opResp, regVars>>

\* environments.py 909-981: read_environments of a delegated environment
ListRemote(e, remote_status, called_ok) ==
    IF ~workerRec[envs[e].worker].exists
      THEN [status |-> "unknown", code |-> "worker_not_found"]
    ELSE IF RefreshNow(envs[e].worker) # "healthy"
      THEN [status |-> "unknown", code |-> "worker_health_" \o RefreshNow(envs[e].worker)]
    ELSE RemoteRead(peer[envs[e].worker], envs[e].status, remote_status, called_ok)

\* the workers whose health read_environments asks for
ListedWorkers ==
    {w \in WorkerIds : workerRec[w].exists /\ \E e \in Rows : envs[e].worker = w}

\* environments.py 875-1026: read_environments; failing are the environments whose
\* container lookup raises
ReadEnvironments(docker, failing, state, remote_status, called_ok) ==
    /\ Rows # {}
    /\ readResp' = [e \in EnvIds |->
           IF e \notin Rows THEN readResp[e]
           ELSE IF envs[e].worker # HostScope
             THEN ListRemote(e, remote_status, called_ok).status
           ELSE LocalRead(e, docker = "ok" /\ e \notin failing, state)]
    /\ readErr' = [e \in EnvIds |->
           IF e \notin Rows THEN readErr[e]
           ELSE IF envs[e].worker # HostScope
             THEN ListRemote(e, remote_status, called_ok).code
           ELSE ""]
    /\ worker_health_cache' =
           [w \in DOMAIN worker_health_cache \cup {x \in ListedWorkers : ~CacheFresh(x, monotonic)} |->
               IF w \in ListedWorkers /\ ~CacheFresh(w, monotonic)
                 THEN [result |-> [status |-> RefreshNow(w), gen |-> workerRec[w].gen],
                       cached_at |-> monotonic]
               ELSE worker_health_cache[w]]
    /\ UNCHANGED <<allocVars, ticketVars, monotonic, workerRec, rf, upd,
                   rsIn, rsOut, ssh, del, wdel, peer, ready, remoteEnv, opResp, regVars>>


(* ------------------------------- ssh_policy ----------------------------- *)

\* str.upper() / str.lower() over the letters the fingerprints use
Upper(s) ==
    LET up == [c \in {"s", "h", "a", "m", "d", "b", "z", "y"} |->
                  CASE c = "s" -> "S" [] c = "h" -> "H" [] c = "a" -> "A" [] c = "m" -> "M"
                    [] c = "d" -> "D" [] c = "b" -> "B" [] c = "z" -> "Z" [] c = "y" -> "Y"]
    IN  [i \in 1 .. Len(s) |-> IF s[i] \in DOMAIN up THEN up[s[i]] ELSE s[i]]
Lower(s) ==
    LET low == [c \in {"S", "H", "A", "M", "D", "B", "Z", "Y", "C", "E", "N", "P", "T", "W"} |->
                  CASE c = "S" -> "s" [] c = "H" -> "h" [] c = "A" -> "a" [] c = "M" -> "m"
                    [] c = "D" -> "d" [] c = "B" -> "b" [] c = "Z" -> "z" [] c = "Y" -> "y"
                    [] c = "C" -> "c" [] c = "E" -> "e" [] c = "N" -> "n" [] c = "P" -> "p"
                    [] c = "T" -> "t" [] c = "W" -> "w"]
    IN  [i \in 1 .. Len(s) |-> IF s[i] \in DOMAIN low THEN low[s[i]] ELSE s[i]]

\* index of the first occurrence of sub in s, 0 if there is none
Find(s, sub) ==
    LET at == {i \in 1 .. Len(s) - Len(sub) + 1 : SubSeq(s, i, i + Len(sub) - 1) = sub}
    IN  IF at = {} THEN 0 ELSE CHOOSE i \in at : \A j \in at : i <= j

\* str.replace(old, ""): drop every occurrence of old
RECURSIVE Remove(_, _)
Remove(s, old) ==
    IF Find(s, old) = 0 THEN s
    ELSE SubSeq(s, 1, Find(s, old) - 1)
             \o Remove(SubSeq(s, Find(s, old) + Len(old), Len(s)), old)

\* str.rstrip("=")
RECURSIVE RStripPad(_)
RStripPad(s) ==
    IF s # <<>> /\ s[Len(s)] = "=" THEN RStripPad(SubSeq(s, 1, Len(s) - 1)) ELSE s

\* ":".join(raw[i : i + 2] for i in range(0, len(raw), 2))
ColonPairs(raw) ==
    [j \in 1 .. (Len(raw) + (Len(raw) + 1) \div 2 - 1) |->
        IF j % 3 = 0 THEN ":" ELSE raw[j - j \div 3]]

\* _fingerprint_sha256: base64 of the key's SHA-256 digest, padding dropped
FingerprintSha256(key) ==
    RStripPad(IF key = 1 THEN <<"A", "b", "1", "=">> ELSE <<"Z", "y", "2", "=">>)
\* _fingerprint_md5: the 32 hex digits of the key's MD5 digest, in colon pairs
FingerprintMd5(key) ==
    ColonPairs([i \in 1 .. 32 |-> IF key = 1 THEN (IF i % 2 = 1 THEN "a" ELSE "1")
                                  ELSE (IF i % 2 = 1 THEN "b" ELSE "2")])

\* _normalize_md5_fingerprint: the normalised text, or the error raised
NormalizeMd5Fingerprint(value) ==
    LET raw == Remove(Remove(Remove(Lower(Strip(value)), <<"m", "d", "5", ":">>),
                             <<"-">>), <<":">>)
    IN  IF Len(raw) # 32 THEN [error |-> "ssh_host_key_invalid_fingerprint", text |-> <<>>]
        ELSE [error |-> "", text |-> ColonPairs(raw)]

\* _verify_fingerprint: "" when it returns, else the code of the SshPolicyError
\* raised, or the name of another exception raised
VerifyFingerprint(expected, key) ==
    LET expected_value == Strip(expected)
        prefix == <<"S", "H", "A", "2", "5", "6", ":">>
        at == Find(expected_value, prefix)
        expected_sha256 ==
            RStripPad(Strip(SubSeq(expected_value, at + Len(prefix), Len(expected_value))))
        md5 == NormalizeMd5Fingerprint(expected_value)
    IN  IF expected_value = <<>> THEN ""
        ELSE IF SubSeq(Upper(expected_value), 1, Len(prefix)) = prefix
             THEN IF at = 0 THEN "IndexError"
                  ELSE IF FingerprintSha256(key) # expected_sha256
                       THEN "ssh_host_key_mismatch" ELSE ""
        ELSE IF md5.error # "" THEN md5.error
        ELSE IF FingerprintMd5(key) # md5.text THEN "ssh_host_key_mismatch"
        ELSE ""

\* the codes SshPolicyError is raised with
PolicyErrorCodes ==
    {"ssh_host_key_mismatch", "ssh_host_key_invalid_fingerprint", "ssh_auth_failed",
     "ssh_private_key_invalid", "ssh_connection_failed"}

\* variant: the name of what was raised is passed on as the code
MapSshErrorVerbatim(raised) == raised

\* map_ssh_error on what connect raised: an SshPolicyError (named by its code), the
\* SSHException of RejectPolicy whose text says "not found in known_hosts",
\* BadHostKeyException, AuthenticationException, another SSHException, or another
\* exception
MapSshError(raised) ==
    IF raised \in PolicyErrorCodes THEN raised
    ELSE IF raised \in {"NotInKnownHosts", "ssh_host_key_untrusted"} THEN "ssh_host_key_untrusted"
    ELSE IF raised = "BadHostKeyException" THEN "ssh_host_key_mismatch"
    ELSE IF raised = "AuthenticationException" THEN "ssh_auth_failed"
    ELSE "ssh_connection_failed"

\* values of SSH_HOST_KEY_POLICY: unset (the default applies), accept-new, accept-new
\* in another spelling, an unrecognised word, empty
PolicyValues ==
    {<<"r", "e", "j", "e", "c", "t">>,
     <<"a", "c", "c", "e", "p", "t", "-", "n", "e", "w">>,
     <<" ", "A", "c", "c", "e", "p", "t", "-", "N", "E", "W", "\n">>,
     <<"a", "c", "c", "e", "p", "t">>,
     <<>>}

\* _get_host_key_policy_mode
GetHostKeyPolicyMode(value) ==
    LET mode == Lower(Strip(value))
    IN  IF mode = <<"a", "c", "c", "e", "p", "t", "-", "n", "e", "w">> THEN "accept-new"
        ELSE "reject"

\* host_fingerprint arguments for a server presenting key: texts pinning that key
\* or the other one, in either digest form, and texts in neither form
Fingerprints(key) ==
    LET other == 3 - key
        sha == <<"S", "H", "A", "2", "5", "6", ":">>
    IN  {[kind |-> "none", text |-> <<>>],
         [kind |-> "blank", text |-> <<" ">>],
         [kind |-> "sha256_match", text |-> sha \o FingerprintSha256(key) \o <<"=">>],
         [kind |-> "md5_match", text |-> <<"M", "D", "5", ":">> \o Upper(FingerprintMd5(key))],
         [kind |-> "sha256_mismatch", text |-> <<" ">> \o sha \o FingerprintSha256(other)],
         [kind |-> "sha256_lower_mismatch", text |-> Lower(sha) \o FingerprintSha256(other)],
         [kind |-> "md5_mismatch", text |-> FingerprintMd5(other)],
         [kind |-> "md5_malformed", text |-> SubSeq(Remove(FingerprintMd5(other), <<":">>), 1, 30)]}

SshFail(raised) ==
    ssh' = [ssh EXCEPT !.pc = "done", !.error = MapSshError(raised),
                       !.transport = IF @ = "open" THEN "closed" ELSE @]

\* connect_ssh l.147-168: the pre-auth path is taken when a fingerprint is given
ConnectSsh(key, fp, auth_method, has_key, policy, known) ==
    /\ ssh.pc = "idle"
    /\ ssh' = [ssh EXCEPT !.pc = IF fp.text # <<>> THEN "start_client" ELSE "plain",
                          !.fp = fp, !.key = key, !.auth_method = auth_method,
                          !.has_key = has_key, !.mode = GetHostKeyPolicyMode(policy),
                          !.known = known]
    /\ UNCHANGED <<allocVars, ticketVars, healthVars, rsIn, rsOut, readResp, del, wdel, extVars>>

\* connect_ssh l.170-207 without a fingerprint: client.connect authenticates under
\* the host-key policy; the later fingerprint test is never true on this path
PlainConnect(parsed, connected, authenticated) ==
    /\ ssh.pc = "plain"
    /\ IF ssh.auth_method = "key" /\ ssh.has_key /\ ~parsed
         THEN SshFail("ssh_private_key_invalid")
       ELSE IF ~connected THEN SshFail("OSError")
       ELSE IF ssh.known = "other" THEN SshFail("BadHostKeyException")
       ELSE IF ssh.known = "no" /\ ssh.mode # "accept-new" THEN SshFail("NotInKnownHosts")
       ELSE IF ~authenticated
         THEN ssh' = [ssh EXCEPT !.pc = "done", !.error = MapSshError("AuthenticationException"),
                                 !.transport = "closed", !.auth = Append(@, "connect")]
       ELSE ssh' = [ssh EXCEPT !.pc = "done", !.transport = "open",
                               !.auth = Append(@, "connect")]
    /\ UNCHANGED <<allocVars, ticketVars, healthVars, rsIn, rsOut, readResp, del, wdel, extVars>>

\* l.223-226: socket, transport and key exchange
StartClient(connected, negotiated) ==
    /\ ssh.pc = "start_client"
    /\ IF ~connected THEN SshFail("OSError")
       ELSE IF ~negotiated
         THEN ssh' = [ssh EXCEPT !.pc = "done", !.error = MapSshError("SSHException"),
                                 !.transport = "closed"]
       ELSE ssh' = [ssh EXCEPT !.pc = "verify", !.transport = "open", !.server_key = TRUE]
    /\ UNCHANGED <<allocVars, ticketVars, healthVars, rsIn, rsOut, readResp, del, wdel, extVars>>

\* l.228-229: the server key is compared before any credential is sent
VerifyServerKey ==
    /\ ssh.pc = "verify"
    /\ LET raised == VerifyFingerprint(ssh.fp.text, ssh.key)
       IN  IF raised # "" THEN SshFail(raised)
           ELSE ssh' = [ssh EXCEPT !.pc = "auth", !.verified = TRUE]
    /\ UNCHANGED <<allocVars, ticketVars, healthVars, rsIn, rsOut, readResp, del, wdel, extVars>>

\* l.231-242: authentication on the verified transport
Authenticate(parsed, authenticated) ==
    /\ ssh.pc = "auth"
    /\ IF ssh.auth_method = "key" /\ ssh.has_key /\ ~parsed
         THEN SshFail("ssh_private_key_invalid")
       ELSE LET call == IF ssh.auth_method = "key" /\ ssh.has_key
                        THEN "auth_publickey" ELSE "auth_password"
            IN  IF authenticated
                  THEN ssh' = [ssh EXCEPT !.pc = "done", !.auth = Append(@, call)]
                ELSE ssh' = [ssh EXCEPT !.pc = "done", !.auth = Append(@, call),
                                        !.error = MapSshError("ssh_auth_failed"),
                                        !.transport = "closed"]
    /\ UNCHANGED <<allocVars, ticketVars, healthVars, rsIn, rsOut, readResp, del, wdel, extVars>>

(* --------------------------- delete_environment ------------------------- *)

\* errors call_worker_api raises: a 404 of the worker, a coded not-found, a failure
\* whose text says not found, an unreachable worker, another failure
WorkerErrorAnswers ==
    {[status_code |-> 404, code |-> "worker_request_failed", not_found_text |-> FALSE],
     [status_code |-> 500, code |-> "environment_not_found", not_found_text |-> FALSE],
     [status_code |-> 500, code |-> "worker_request_failed", not_found_text |-> TRUE],
     [status_code |-> 503, code |-> "worker_unreachable", not_found_text |-> FALSE],
     [status_code |-> 500, code |-> "worker_request_failed", not_found_text |-> FALSE]}

\* a not-found test that trusts the http status only
IsNotFoundByStatusOnly(error) == error.status_code = 404

\* a not-found test that takes every failure of the worker for absence
IsAnyWorkerFailure(error) == error.status_code >= 400

\* _is_worker_environment_not_found
IsWorkerEnvironmentNotFound(error) ==
    IF error.status_code = 404 THEN TRUE
    ELSE IF error.code \in {"environment_not_found", "worker_environment_not_found"} THEN TRUE
    ELSE IF error.code # "worker_request_failed" THEN FALSE
    ELSE error.not_found_text

DeleteReturn(d, stage, r) ==
    del' = [del EXCEPT ![d].pc = "done", ![d].failed_at = stage, ![d].resp = r]

\* the except branch of the local cleanup always re-raising the database error
LocalCleanupFailedUnreported(d) == DeleteReturn(d, "db", Resp(500, "internal_error"))

\* l.1476-1487: rollback, then local_cleanup_failed if the remote delete completed
LocalCleanupFailed(d) ==
    DeleteReturn(d, "db", IF del[d].worker # HostScope /\ del[d].completed
                            THEN Resp(500, "local_cleanup_failed")
                          ELSE Resp(500, "internal_error"))

\* l.1386-1391: the row is loaded
DeleteBegin(d, e, force) ==
    /\ del[d].pc = "idle"
    /\ IF e \notin Rows THEN DeleteReturn(d, "lookup", Resp(404, "not_found"))
       ELSE del' = [del EXCEPT ![d].pc = IF envs[e].worker # HostScope THEN "remote"
                                         ELSE "local",
                               ![d].env = e, ![d].force = force,
                               ![d].worker = envs[e].worker,
                               ![d].retry =
                                   \E o \in Deleters :
                                       /\ del[o].env = e
                                       /\ del[o].resp = Resp(500, "local_cleanup_failed")]
    /\ UNCHANGED <<allocVars, ticketVars, healthVars, rsIn, rsOut, readResp, ssh, wdel, extVars>>

\* l.1392-1433: the remote stage.  The worker answers the DELETE with answer; gone
\* tells whether a failed DELETE removed the environment all the same; probe is
\* the answer to the GET of _is_worker_environment_absent.
DeleteRemote(d, healthy, answer, gone, probe) ==
    /\ del[d].pc = "remote"
    /\ LET e == del[d].env
           called == [del EXCEPT ![d].answer = answer]
           proceed(c) == [c EXCEPT ![d].pc = "local"]
           complete(c) == [c EXCEPT ![d].pc = "local", ![d].completed = TRUE]
           after == IF answer = AnswerOk \/ gone THEN FALSE ELSE remote[e]
       IN  /\ answer = AnswerOk => remote[e]
           /\ (answer # AnswerOk /\ IsWorkerEnvironmentNotFound(answer)) => ~remote[e]
           /\ gone => remote[e] /\ answer # AnswerOk
           /\ probe = AnswerOk => after
           /\ (probe # AnswerOk /\ IsWorkerEnvironmentNotFound(probe)) => ~after
           /\ IF ~workerRec[del[d].worker].exists
                THEN /\ IF del[d].force THEN del' = proceed(del)
                        ELSE DeleteReturn(d, "remote", Resp(404, "worker_not_found"))
                     /\ UNCHANGED remote
              ELSE IF ~del[d].force /\ ~healthy
                THEN /\ DeleteReturn(d, "remote", Resp(503, "worker_unreachable"))
                     /\ UNCHANGED remote
              ELSE /\ remote' = [remote EXCEPT ![e] = after]
                   /\ IF answer = AnswerOk THEN del' = complete(called)
                      ELSE IF del[d].force THEN del' = proceed(called)
                      ELSE IF IsWorkerEnvironmentNotFound(answer) THEN del' = complete(called)
                      ELSE IF probe # AnswerOk /\ IsWorkerEnvironmentNotFound(probe)
                        THEN del' = complete(called)
                      ELSE del' = [called EXCEPT ![d].pc = "done",
                                                 ![d].failed_at = "remote",
                                                 ![d].resp = Resp(answer.status_code,
                                                                  answer.code)]
    /\ UNCHANGED <<storeVars, container, lock, cr, remoteDeletes, task, startPc,
                   ticketVars, healthVars, rsIn, rsOut, readResp, ssh, wdel, extVars>>

\* l.1435-1493: container removal, then the side records and the row in one
\* transaction, then the sweep of expired tickets
DeleteLocal(d, docker_ok, db_ok) ==
    /\ del[d].pc = "local"
    /\ IF del[d].worker = HostScope /\ ~docker_ok
         THEN /\ DeleteReturn(d, "container", Resp(500, "container_delete_failed"))
              /\ UNCHANGED <<storeVars, container, jupyter_launch_tickets,
                             code_launch_tickets>>
       ELSE /\ container' = IF docker_ok THEN [container EXCEPT ![del[d].env] = "none"]
                            ELSE container
            /\ IF db_ok /\ del[d].env \in Rows
                 THEN /\ DeleteRowAndSideRecords(del[d].env)
                      /\ DeleteReturn(d, "", Resp(204, "deleted"))
                      /\ jupyter_launch_tickets' =
                             CleanupExpiredTickets(jupyter_launch_tickets, wallClock)
                      /\ code_launch_tickets' =
                             CleanupExpiredTickets(code_launch_tickets, wallClock)
               ELSE /\ LocalCleanupFailed(d)
                    /\ UNCHANGED <<storeVars, jupyter_launch_tickets, code_launch_tickets>>
    /\ UNCHANGED <<lock, cr, remote, remoteDeletes, task, startPc, wallClock, ticketMeta,
                   rd, healthVars, rsIn, rsOut, readResp, ssh, wdel, extVars>>

(* ------------------------- worker_servers requests --------------------- *)
\* _normalize_base_url: strip, then drop every trailing "/"
RECURSIVE RStripSlash(_)
RStripSlash(s) ==
    IF s # <<>> /\ s[Len(s)] = "/" THEN RStripSlash(SubSeq(s, 1, Len(s) - 1)) ELSE s
NormalizeBaseUrl(base_url) == RStripSlash(Strip(base_url))

\* _find_worker_by_name: a committed row, other than exclude, whose lowered name is
\* the lowered name asked for
FindWorkerByName(name, exclude) ==
    \E r \in DOMAIN wtab : r # exclude /\ Lower(wtab[r].name) = Lower(Strip(name))

\* the request answers and ends; a failed request has rolled back
WorkerReturn(q, status, code) ==
    wreq' = [wreq EXCEPT ![q] = [@ EXCEPT !.pc = "done",
                                          !.resp = [code |-> code, status |-> status]]]

\* the checks of both handlers on the fields the payload gives, then the row is
\* pending for the flush
WorkerChecked(q, row, name, base_url) ==
    IF name.given /\ Strip(name.text) = <<>>
      THEN WorkerReturn(q, 400, "worker_name_required")
    ELSE IF name.given /\ FindWorkerByName(name.text, row)
      THEN WorkerReturn(q, 409, "duplicate_worker_name")
    ELSE IF base_url.given /\ NormalizeBaseUrl(base_url.text) = <<>>
      THEN WorkerReturn(q, 400, "worker_base_url_required")
    ELSE wreq' = [wreq EXCEPT ![q] =
                     [pc |-> "flush", row |-> row,
                      name |-> [name EXCEPT !.text = Strip(@)],
                      base_url |-> [base_url EXCEPT !.text = NormalizeBaseUrl(@)],
                      resp |-> [code |-> "", status |-> 0]]]

\* worker_servers.py 86-122: create_worker_server up to db.add(worker)
CreateWorkerBegin(q, name, base_url) ==
    /\ wreq[q].pc = "idle"
    /\ WorkerChecked(q, MaxWorkerRow + q, [given |-> TRUE, text |-> name],
                     [given |-> TRUE, text |-> base_url])
    /\ UNCHANGED <<allocVars, ticketVars, healthVars, auxVars, peer, ready, remoteEnv,
                   opResp, readErr, wtab, hc, wcall, foreignPorts, gp>>

\* worker_servers.py 149-178: update_worker_server up to the flush
UpdateWorkerBegin(q, row, name, base_url) ==
    /\ wreq[q].pc = "idle"
    /\ IF row \notin DOMAIN wtab THEN WorkerReturn(q, 404, "worker_not_found")
       ELSE WorkerChecked(q, row, name, base_url)
    /\ UNCHANGED <<allocVars, ticketVars, healthVars, auxVars, peer, ready, remoteEnv,
                   opResp, readErr, wtab, hc, wcall, foreignPorts, gp>>

\* the row as the flush writes it: the fields the request gives replace the stored
\* ones
FlushedRow(q) ==
    LET old == IF wreq[q].row \in DOMAIN wtab THEN wtab[wreq[q].row]
               ELSE [name |-> <<>>, base_url |-> <<>>]
    IN  [name |-> IF wreq[q].name.given THEN wreq[q].name.text ELSE old.name,
         base_url |-> IF wreq[q].base_url.given THEN wreq[q].base_url.text ELSE old.base_url]

\* uq_worker_servers_name and uq_worker_servers_base_url: equality of the stored
\* values against the other committed rows
NameConstraintViolated(q) ==
    \E r \in DOMAIN wtab \ {wreq[q].row} : wtab[r].name = FlushedRow(q).name
BaseUrlConstraintViolated(q) ==
    \E r \in DOMAIN wtab \ {wreq[q].row} : wtab[r].base_url = FlushedRow(q).base_url

\* worker_servers.py 124-146 and 196-216: flush and commit, or the rollback after an
\* IntegrityError
WorkerCommit(q) ==
    /\ wreq[q].pc = "flush"
    /\ IF NameConstraintViolated(q)
         THEN WorkerReturn(q, 409, "duplicate_worker_name") /\ UNCHANGED wtab
       ELSE IF BaseUrlConstraintViolated(q)
         THEN WorkerReturn(q, 409, "duplicate_worker_base_url") /\ UNCHANGED wtab
       ELSE /\ wtab' = [r \in DOMAIN wtab \cup {wreq[q].row} |->
                          IF r = wreq[q].row THEN FlushedRow(q) ELSE wtab[r]]
            /\ WorkerReturn(q, IF wreq[q].row \in DOMAIN wtab THEN 200 ELSE 201, "ok")
    /\ UNCHANGED <<allocVars, ticketVars, healthVars, auxVars, peer, ready, remoteEnv,
                   opResp, readErr, hc, wcall, foreignPorts, gp>>

\* names and addresses the requests are made with
WorkerNameChoices == {<<"z">>, <<"Z">>, <<" ", "W">>, <<" ">>}
BaseUrlChoices == {<<"u">>, <<"y", "/">>, <<" ", "y", "/", "/">>, <<"/">>}
Opt(values) == {NoField} \cup {[given |-> TRUE, text |-> v] : v \in values}

NextWorkers ==
    \/ \E q \in WorkerReqs, name \in WorkerNameChoices, base_url \in BaseUrlChoices :
         CreateWorkerBegin(q, name, base_url)
    \/ \E q \in WorkerReqs, row \in 1 .. MaxWorkerRow + 1, name \in Opt(WorkerNameChoices),
          base_url \in Opt(BaseUrlChoices) :
         UpdateWorkerBegin(q, row, name, base_url)
    \/ \E q \in WorkerReqs : WorkerCommit(q)

SpecWorkers == Init /\ [][NextWorkers]_vars

(* ------------------------------ specifications ------------------------- *)
\* ports: local and delegated creates, the provisioning task and deletes
PortRequests == RequestsOf(Names, {HostScope} \cup WorkerIds, {GpuChoices0}, CustomChoices)
PortAnswers == AnswersOf({TRUE}, {<<>>}, {"building"}, {<<>>, <<Mapping(35001, 10000)>>})

NextPorts ==
    \/ \E p \in Procs :
            \/ CreateBegin(p, PortRequests) \/ LocalTxn(p) \/ LocalFlush(p) \/ Enqueue(p)
            \/ CompensateDelete(p) \/ CompensateMark(p) \/ PostEnqueue(p)
            \/ DelegatedProbe(p) \/ DelegatedCall(p, PortAnswers) \/ DelegatedTxn(p) \/ DelegatedFlush(p)
            \/ DelegatedCleanup(p)
    \/ \E e \in EnvIds :
            \/ TaskStart(e) \/ TaskBuild(e) \/ TaskRunOk(e) \/ TaskRunError(e)
            \/ TaskReallocate(e) \/ TaskFinish(e)
            \/ DeleteEnvironment(e)

SpecPorts == Init /\ [][NextPorts]_vars

\* GPUs: local creates that ask for GPUs, the task, start, stop and delete
GpuRequests == RequestsOf(Names, {HostScope}, GpuChoices \ {GpuChoices0}, {<<>>})

NextGpu ==
    \/ \E p \in Procs :
            \/ CreateBegin(p, GpuRequests) \/ LocalTxn(p) \/ LocalFlush(p) \/ Enqueue(p)
            \/ CompensateDelete(p) \/ CompensateMark(p) \/ PostEnqueue(p)
    \/ \E e \in EnvIds :
            \/ TaskStart(e) \/ TaskBuild(e) \/ TaskRunOk(e) \/ TaskRunError(e)
            \/ TaskFinish(e)
            \/ \E docker \in {"ok", "error"} :
                  StartBegin(e, docker) \/ StartFinish(e, docker)
                    \/ StopEnvironment(e, docker, TRUE)
            \/ DeleteEnvironment(e)

SpecGpu == Init /\ [][NextGpu]_vars

\* delegated creates against a worker whose answers include the unusable ones
DelegatedRequests == RequestsOf(Names, WorkerIds, {GpuChoices0}, CustomChoices)
DelegatedAnswers ==
    AnswersOf(BOOLEAN, {<<>>}, {"building"}, RemoteCustomChoices)

NextDelegated ==
    \/ \E p \in Procs :
            \/ CreateBegin(p, DelegatedRequests)
            \/ DelegatedProbe(p) \/ DelegatedCall(p, DelegatedAnswers) \/ DelegatedTxn(p) \/ DelegatedFlush(p)
            \/ DelegatedCleanup(p)

SpecDelegated == Init /\ [][NextDelegated]_vars

\* launch tickets of provisioned environments; the host environment may be
\* stopped meanwhile
NextTickets ==
    \/ \E kind \in Kinds, e \in EnvIds : CreateLaunchUrl(kind, e)
    \/ \E q \in Redeemers, kind \in Kinds, t \in 1 .. MaxTickets, e \in EnvIds :
         RedeemBegin(q, kind, t, e)
    \/ \E q \in Redeemers : RedeemLookup(q) \/ RedeemCommit(q) \/ RedeemToken(q)
    \/ \E e \in {x \in Rows : envs[x].worker = HostScope}, docker \in {"ok", "error"} :
         StopEnvironment(e, docker, TRUE)
    \/ TickWallClock

InitLaunch == InitProvisioned /\ InitTickets /\ InitHealth /\ InitAux /\ InitExt
SpecTickets == InitLaunch /\ [][NextTickets]_vars

\* the worker health cache under refreshes, an update and a delete.  The
\* callers of refresh_worker_health: readiness checks and listings (cached, not
\* persisted), refresh_all_worker_health (cached, persisted) and the forced
\* health check (uncached, persisted).
RefreshCallers == {[use_cache |-> TRUE, persist |-> FALSE],
                   [use_cache |-> TRUE, persist |-> TRUE],
                   [use_cache |-> FALSE, persist |-> TRUE]}
NextHealth ==
    \/ \E r \in Refreshers, w \in WorkerIds, c \in RefreshCallers :
         RefreshBegin(r, w, c.use_cache, c.persist)
    \/ \E r \in Refreshers : RefreshFinish(r)
    \/ \E w \in WorkerIds : UpdateBegin(w) \/ UpdateFinish(w)
    \/ \E w \in WorkerIds : DeleteWorkerBegin(w) \/ DeleteWorkerCommit(w)
    \/ TickMonotonic

SpecHealth == Init /\ [][NextHealth]_vars

\* delegated creates racing with the deletion of their worker
NextWorkerDelete ==
    \/ NextDelegated
    \/ \E w \in WorkerIds : DeleteWorkerBegin(w) \/ DeleteWorkerCommit(w)

SpecWorkerDelete == Init /\ [][NextWorkerDelete]_vars

\* delete requests, plain and forced, on provisioned environments
NextDelete ==
    \/ \E d \in Deleters, e \in EnvIds, force \in BOOLEAN : DeleteBegin(d, e, force)
    \/ \E d \in Deleters, healthy, gone \in BOOLEAN,
          answer, probe \in {AnswerOk} \cup WorkerErrorAnswers :
         DeleteRemote(d, healthy, answer, gone, probe)
    \/ \E d \in Deleters, docker_ok, db_ok \in BOOLEAN : DeleteLocal(d, docker_ok, db_ok)

SpecDelete == InitLaunch /\ [][NextDelete]_vars

\* creates drawn with blank Dockerfiles and failing ciphers among them
ValidationRequests ==
    {[r EXCEPT !.dockerfile_content = df, !.cipher = c] :
        r \in RequestsOf(Names, {HostScope} \cup WorkerIds, {GpuChoices0}, {<<>>}),
        df \in {<<>>, <<" ", "\n">>, <<"F", "R", "O", "M">>},
        c \in {"ok", "key_missing", "cipher_failed"}}

NextValidate ==
    \E p \in Procs :
        \/ CreateBegin(p, ValidationRequests) \/ LocalTxn(p) \/ LocalFlush(p) \/ Enqueue(p)
        \/ CompensateDelete(p) \/ CompensateMark(p) \/ PostEnqueue(p)
        \/ DelegatedProbe(p) \/ DelegatedCall(p, PortAnswers) \/ DelegatedTxn(p) \/ DelegatedFlush(p)
        \/ DelegatedCleanup(p)

SpecValidate == Init /\ [][NextValidate]_vars

\* start, stop, launch and read of provisioned environments.  A read of an exited
\* container sees one of a few exit states; a delegated read reports what the
\* worker answers, or unknown when it cannot be reached.
NextLifecycle ==
    \/ \E e \in EnvIds, called_ok \in BOOLEAN : StartDelegated(e, called_ok)
    \/ \E e \in EnvIds, docker \in DockerOutcomes :
         StartBegin(e, docker) \/ StartFinish(e, docker)
    \/ \E e \in Rows, docker \in DockerOutcomes, called_ok \in BOOLEAN :
         /\ (envs[e].worker = HostScope => called_ok) /\ (envs[e].worker # HostScope => docker = "ok")
         /\ StopEnvironment(e, docker, called_ok)
    \/ \E kind \in Kinds, e \in EnvIds : CreateLaunchUrl(kind, e)
    \/ \E e \in Rows,
          state \in [exit_code : {0, 1, 137}, oom_killed : BOOLEAN,
                     error_msg : {<<>>, <<"o", "o", "m">>}],
          remote_status \in {"running", "stopped", "error", "unknown"} :
         /\ envs[e].worker = HostScope => remote_status = "running"
         /\ envs[e].worker # HostScope => state = NoState
         /\ ReadEnvironment(e, "ok", state, remote_status, TRUE)

SpecLifecycle == InitLaunch /\ [][NextLifecycle]_vars

\* start and stop requests, with the workers' peers changing and time passing
NextStartStop ==
    \/ \E e \in EnvIds, called_ok \in BOOLEAN : StartDelegated(e, called_ok)
    \/ \E e \in EnvIds, docker \in DockerOutcomes :
         StartBegin(e, docker) \/ StartFinish(e, docker)
    \/ \E e \in Rows, docker \in DockerOutcomes, called_ok \in BOOLEAN :
         /\ (envs[e].worker = HostScope => called_ok) /\ (envs[e].worker # HostScope => docker = "ok")
         /\ StopEnvironment(e, docker, called_ok)
    \/ \E w \in WorkerIds : PeerChange(w)
    \/ TickMonotonic

SpecStartStop == InitLaunch /\ [][NextStartStop]_vars

\* the container States and remote statuses the reads are run with
ReadStates == {NoState, [exit_code |-> 1, oom_killed |-> FALSE, error_msg |-> <<>>]}
ReadStatuses == {"running", "stopped"}

\* reads (get and list) of a local and a delegated environment, before and after a
\* stop of the local one, with the worker's peer changing and time passing
NextRead ==
    \/ \E e \in Rows, docker \in {"ok", "unavailable"}, state \in ReadStates,
          remote_status \in ReadStatuses, called_ok \in BOOLEAN :
         /\ envs[e].worker = HostScope => remote_status = "running" /\ called_ok
         /\ envs[e].worker # HostScope => state = NoState /\ docker = "ok"
         /\ ReadEnvironment(e, docker, state, remote_status, called_ok)
    \/ \E docker \in {"ok", "unavailable"}, failing \in SUBSET {e \in Rows : envs[e].worker = HostScope},
          state \in ReadStates, remote_status \in ReadStatuses, called_ok \in BOOLEAN :
         /\ docker = "unavailable" => failing = {}
         /\ ReadEnvironments(docker, failing, state, remote_status, called_ok)
    \/ \E e \in {x \in Rows : envs[x].worker = HostScope} : StopEnvironment(e, "ok", TRUE)
    \/ \E w \in {envs[e].worker : e \in Rows} \ {HostScope} : PeerChange(w)
    \/ TickMonotonic

SpecRead == InitLaunch /\ [][NextRead]_vars

\* reads (get and list) of the delegated environment alone, the container runtime
\* working, with the worker's peer changing and time passing
NextRemoteRead ==
    \/ \E e \in {x \in Rows : envs[x].worker # HostScope},
          remote_status \in ReadStatuses, called_ok \in BOOLEAN :
         ReadEnvironment(e, "ok", NoState, remote_status, called_ok)
    \/ \E remote_status \in ReadStatuses, called_ok \in BOOLEAN :
         ReadEnvironments("ok", {}, NoState, remote_status, called_ok)
    \/ \E w \in {envs[e].worker : e \in Rows} \ {HostScope} : PeerChange(w)
    \/ TickMonotonic

SpecRemoteRead == InitLaunch /\ [][NextRemoteRead]_vars

\* one connect_ssh call against a server presenting one of two host keys
NextSsh ==
    \/ \E key \in {1, 2}, auth_method \in {"password", "key"}, has_key \in BOOLEAN :
         \E fp \in Fingerprints(key), policy \in PolicyValues, known \in {"yes", "no", "other"} :
            ConnectSsh(key, fp, auth_method, has_key, policy, known)
    \/ \E parsed, connected, authenticated \in BOOLEAN :
         PlainConnect(parsed, connected, authenticated)
    \/ \E connected, negotiated \in BOOLEAN : StartClient(connected, negotiated)
    \/ VerifyServerKey
    \/ \E parsed, authenticated \in BOOLEAN : Authenticate(parsed, authenticated)

SpecSsh == Init /\ [][NextSsh]_vars

\* delegated creates, up to the answer of the remote create, while the server at
\* the worker's address changes, time passes and the worker is deleted
ReadyRequests == RequestsOf(Names, WorkerIds, {GpuChoices0}, {<<>>})
ReadyAnswers == AnswersOf({TRUE}, {<<>>}, {"building"}, {<<>>})
NextReady ==
    \/ \E p \in Procs :
            \/ CreateBegin(p, ReadyRequests) \/ DelegatedProbe(p)
            \/ DelegatedCall(p, ReadyAnswers)
    \/ \E w \in WorkerIds : PeerChange(w) \/ DeleteWorkerBegin(w) \/ DeleteWorkerCommit(w)
    \/ TickMonotonic

SpecReady == Init /\ [][NextReady]_vars

\* delegated creates, whole, while the server at the worker's address changes; the
\* worker allocates the GPU it is asked for, or none
MirrorRequests == RequestsOf({"a"}, WorkerIds, {GpuChoices0, [gpu_count |-> 0, selected |-> <<0>>]}, {<<>>})
MirrorAnswers == AnswersOf({TRUE}, {<<>>, <<0>>}, {"building"}, {<<>>})
NextMirror ==
    \/ \E p \in Procs :
            \/ CreateBegin(p, MirrorRequests) \/ DelegatedProbe(p)
            \/ DelegatedCall(p, MirrorAnswers) \/ DelegatedTxn(p) \/ DelegatedFlush(p)
            \/ DelegatedCleanup(p)
    \/ \E w \in WorkerIds : PeerChange(w)

SpecMirror == Init /\ [][NextMirror]_vars

\* local creates and their provisioning tasks; the task queue hands every task to
\* the executor, which runs it to its end, and a request that has enqueued its
\* task goes on to its last transaction
ProvisionRequests == RequestsOf(Names, {HostScope}, {GpuChoices0}, {<<>>})
NextProvision ==
    \/ \E p \in Procs :
            \/ CreateBegin(p, ProvisionRequests) \/ LocalTxn(p) \/ LocalFlush(p)
            \/ Enqueue(p) \/ CompensateDelete(p) \/ CompensateMark(p) \/ PostEnqueue(p)
    \/ \E e \in EnvIds :
            \/ TaskStart(e) \/ TaskBuild(e) \/ TaskRunOk(e) \/ TaskRunError(e)
            \/ TaskReallocate(e) \/ TaskFinish(e)

SpecProvision ==
    /\ Init /\ [][NextProvision]_vars
    /\ \A e \in EnvIds : WF_vars(TaskStart(e) \/ TaskBuild(e) \/ TaskRunOk(e)
                                   \/ TaskRunError(e) \/ TaskFinish(e))
    /\ \A p \in Procs : WF_vars(PostEnqueue(p))

\* status resolution alone: the arguments are drawn, the function is applied
InitResolve ==
    /\ InitAlloc /\ InitTickets /\ InitHealth
    /\ rsIn \in ResolveArgs
    /\ rsOut = ""
    /\ readResp = [e \in EnvIds |-> ""]
    /\ ssh = NoSsh
    /\ del = [d \in Deleters |-> NoDelete]
    /\ wdel = [pc |-> "idle", resp |-> 0]
    /\ InitExt

SpecResolve == InitResolve /\ [][ResolveCall]_vars

\* one create request, local or delegated, in its allocate-and-insert loop while
\* another session inserts and deletes a row
RetryRequests == RequestsOf({"a"}, {HostScope} \cup WorkerIds, {GpuChoices0}, {<<>>})
RetryAnswers == AnswersOf({TRUE}, {<<>>}, {"building"}, {<<>>})
CreateStep(p) ==
    \/ LocalTxn(p) \/ LocalFlush(p) \/ Enqueue(p)
    \/ CompensateDelete(p) \/ CompensateMark(p) \/ PostEnqueue(p)
    \/ DelegatedProbe(p) \/ DelegatedCall(p, RetryAnswers) \/ DelegatedTxn(p)
    \/ DelegatedFlush(p) \/ DelegatedCleanup(p)
NextRetry ==
    \/ CreateBegin(1, RetryRequests)
    \/ CreateStep(1)
    \/ RivalInsert(NumCreators, HostScope, {}) \/ DeleteEnvironment(NumCreators)

SpecRetry == Init /\ [][NextRetry]_vars
\* every step of the handler is eventually taken: the database and the worker
\* answer, and the advisory lock is only held by the request itself
SpecRetryFair == SpecRetry /\ WF_vars(CreateStep(1))

\* one local create whose allocation transaction can fail in each of its ways:
\* another session takes GPUs and ports, other containers bind host ports
FailRequests == RequestsOf({"a"}, {HostScope}, GpuChoices, {<<>>})
NextCreateFail ==
    \/ CreateBegin(1, FailRequests)
    \/ LocalTxn(1) \/ LocalFlush(1) \/ Enqueue(1)
    \/ CompensateDelete(1) \/ CompensateMark(1) \/ PostEnqueue(1)
    \/ \E gpu \in SUBSET (0 .. TotalGpus - 1) : RivalInsert(NumCreators, HostScope, gpu)
    \/ DeleteEnvironment(NumCreators)
    \/ \E ports \in SUBSET SshRange : ForeignContainers(ports)

SpecCreateFail == Init /\ [][NextCreateFail]_vars

\* GPU allocation alone: the request and the GPU count of the host are drawn, a
\* row of another environment, host-managed or delegated, holds GPUs or is deleted
\* between the up-front checks and the insert
GpuPickTotal == 3
PickChoices ==
    {[gpu_count |-> n, selected |-> <<>>] : n \in 0 .. GpuPickTotal}
      \cup {[gpu_count |-> n, selected |-> sel] :
               n \in {0, 1},
               sel \in {<<0>>, <<1>>, <<0, 1>>, <<1, 0>>, <<0, 0>>,
                        <<GpuPickTotal>>, <<-1>>}}
InitGpuPick ==
    /\ InitAlloc /\ InitTickets /\ InitHealth /\ InitAux /\ InitRegistry
    /\ hc = NoCheck /\ wcall = NoCall
    /\ gp \in {[NoPick EXCEPT !.req = r, !.total = n] :
                 r \in RequestsOf({"a"}, {HostScope}, PickChoices, {<<>>}),
                 n \in 1 .. GpuPickTotal}
NextGpuPick ==
    \/ GpuPickCheck
    \/ GpuPickInsert(1)
    \/ \E scope \in {HostScope} \cup WorkerIds, gpu \in SUBSET (0 .. GpuPickTotal - 1) :
         RivalInsert(NumCreators, scope, gpu)
    \/ DeleteEnvironment(NumCreators)

SpecGpuPick == InitGpuPick /\ [][NextGpuPick]_vars

\* check_worker_health alone: the config, the timeout argument and the environment
\* variable are drawn, the worker answers or fails each attempt
CheckConfigs ==
    {[NoCheck EXCEPT !.base_url = b, !.api_token = t, !.env = e, !.timeout = a] :
        b \in {<<>>, <<"u">>}, t \in {<<>>, <<"t">>},
        e \in {[kind |-> "unset", value |-> 0], [kind |-> "junk", value |-> 0],
               [kind |-> "number", value |-> 0], [kind |-> "number", value |-> 12],
               [kind |-> "number", value |-> 60]},
        a \in {0, 2}}
InitCheck ==
    /\ InitAlloc /\ InitTickets /\ InitHealth /\ InitAux /\ InitRegistry
    /\ hc \in CheckConfigs
    /\ wcall = NoCall /\ gp = NoPick
NextCheck == CheckBegin \/ \E r \in ProbeOutcomes : CheckProbe(r)

SpecCheck == InitCheck /\ [][NextCheck]_vars

\* call_worker_api alone: how the configuration is built is drawn, the worker
\* answers the request or the request fails
InitCall ==
    /\ InitAlloc /\ InitTickets /\ InitHealth /\ InitAux /\ InitRegistry
    /\ hc = NoCheck /\ gp = NoPick
    /\ wcall \in {[NoCall EXCEPT !.config = c] :
                    c \in {"ok", "SecretCipherError", "SecretKeyError", "Exception"}}
NextCall == CallBegin \/ \E r \in CallOutcomes : CallRequest(r)

SpecCall == InitCall /\ [][NextCall]_vars

\* the whole program: every operation with every input above
Next ==
    \/ NextPorts \/ NextGpu \/ NextDelegated \/ NextTickets \/ NextHealth
    \/ NextLifecycle \/ NextWorkerDelete \/ NextDelete \/ NextValidate \/ NextSsh
    \/ ResolveCall \/ NextReady \/ NextMirror \/ NextProvision \/ NextStartStop \/ NextRead \/ NextRemoteRead
    \/ NextWorkers \/ NextRetry \/ NextCreateFail \/ NextGpuPick \/ NextCheck \/ NextCall

Spec == Init /\ [][Next]_vars

(* -------------------------------- properties --------------------------- *)
\* the host ports stored for environment e: its row's three service ports and
\* the host ports of its custom_ports setting, as a list
StoredPortList(e) ==
    (IF e \in Rows THEN <<envs[e].ssh, envs[e].jup, envs[e].code>> ELSE <<>>)
      \o (IF e \in DOMAIN customSetting
            THEN [i \in DOMAIN customSetting[e] |-> customSetting[e][i].host_port]
          ELSE <<>>)
NoRepeat(s) == \A i, j \in DOMAIN s : i # j => s[i] # s[j]

\* C1: the multiset of all stored ssh, jupyter and code ports together with all
\* stored custom host ports has no duplicates: no port repeats within one
\* environment's stored ports and no port is stored for two environments.
C1_StoredPortsUnique ==
    /\ \A e \in EnvIds : NoRepeat(StoredPortList(e))
    /\ \A e1, e2 \in EnvIds :
         e1 # e2 => Range(StoredPortList(e1)) \cap Range(StoredPortList(e2)) = {}

\* C2: no two environments of the same scope (the host, or the same worker)
\* whose stored status is occupied share a GPU index.
C2_OccupiedGpusDisjoint ==
    \A e1, e2 \in Rows :
        (/\ e1 # e2
         /\ envs[e1].worker = envs[e2].worker
         /\ envs[e1].status \in GPU_OCCUPIED_STATUSES
         /\ envs[e2].status \in GPU_OCCUPIED_STATUSES)
        => envs[e1].gpu \cap envs[e2].gpu = {}

\* C3: every create that has chosen its ports and is about to insert its row
\* (local row or shadow row) holds the allocation lock, and at most one such
\* create is in progress.
C3_AllocationUnderLock ==
    /\ \A p \in Procs : cr[p].pc \in {"l_flush", "d_flush"} => lock = p
    /\ Cardinality({p \in Procs : cr[p].pc \in {"l_flush", "d_flush"}}) <= 1

\* C4: when a local create returns 503 task_enqueue_failed, the row, its
\* jupyter_token record and its custom_ports record are all absent, or the row
\* is present with status error.
C4_EnqueueFailureCompensated ==
    [][\A p \in Procs :
         (/\ cr[p].pc # "done"
          /\ cr'[p].pc = "done"
          /\ cr'[p].resp = Resp(503, "task_enqueue_failed"))
         => \/ /\ p \notin DOMAIN envs'
               /\ p \notin tokenKeys'
               /\ p \notin DOMAIN customSetting'
            \/ /\ p \in DOMAIN envs'
               /\ envs'[p].status = "error"]_vars

\* C5: a delegated create whose surrogate allocation or shadow-row insert fails
\* after the remote create succeeded goes through the remote cleanup: before the
\* error is returned exactly one remote DELETE has been issued, no local row
\* remains, and the error returned is the one that was raised, whether or not
\* the DELETE succeeded.
C5_ShadowFailureCleansUp ==
    [][\A p \in Procs :
         /\ (/\ cr[p].pc \in {"d_txn", "d_flush"}
             /\ cr'[p].pc \notin {"d_txn", "d_flush"}
             /\ p \notin DOMAIN envs')
            => /\ cr'[p].pc = "d_cleanup"
               /\ cr'[p].resp.status >= 400
               /\ remoteDeletes'[p] = 0
         /\ (cr[p].pc = "d_cleanup" /\ cr'[p].pc # "d_cleanup")
            => /\ cr'[p].pc = "done"
               /\ cr'[p].resp = cr[p].resp
               /\ remoteDeletes'[p] = 1
               /\ p \notin DOMAIN envs'
         /\ (cr[p].pc = "done" /\ remoteDeletes[p] = 1) => remoteDeletes'[p] = 1]_vars

\* C5, reached: a delegated create returned its error after one remote DELETE
\* that failed, so the environment still exists on the worker
C5_Witness ==
    \E p \in Procs :
        /\ cr[p].pc = "done"
        /\ cr[p].resp = Resp(409, "duplicate_environment_name")
        /\ remoteDeletes[p] = 1
        /\ remote[p]
        /\ p \notin Rows

\* C6: a delegated create never returns an error while the environment it
\* created on the worker still exists and no remote delete was attempted.
C6_NoErrorWithoutRemoteDelete ==
    \A p \in Procs :
        (cr[p].pc = "done" /\ cr[p].resp.status >= 400 /\ remote[p])
        => remoteDeletes[p] >= 1

\* the environment of redemption q can be served: it is delegated, or its
\* container runs on the host
Servable(q) ==
    /\ rd'[q].env \in Rows
    /\ envs[rd'[q].env].worker # HostScope \/ container[rd'[q].env] = "running"

\* C7: a redemption with the matching environment id answers 307 when it is
\* the first one for the ticket, within the TTL and the environment can be
\* served; 410 when it begins after a redemption of the ticket returned the
\* redirect; and 410 when the TTL has passed.
C7_RedemptionCodes ==
    [][\A q \in Redeemers :
         (/\ rd[q].pc # "done"
          /\ rd'[q].pc = "done"
          /\ rd'[q].env = ticketMeta[rd'[q].ticket].env)
         => /\ (rd'[q].first /\ ~rd'[q].late /\ Servable(q)) => rd'[q].resp = 307
            /\ rd'[q].later => rd'[q].resp = 410
            /\ (rd'[q].first /\ rd'[q].late) => rd'[q].resp = 410]_vars

\* C8: at most one redemption request of a ticket returns the redirect.
C8_SingleRedirect ==
    \A t \in 1 .. Len(ticketMeta) :
        Cardinality({q \in Redeemers : /\ rd[q].pc = "done"
                                       /\ rd[q].ticket = t
                                       /\ rd[q].resp = 307}) <= 1

\* C9 as stated: of two use_cache calls for the same worker that begin within
\* the TTL of each other, the earlier one finding no usable entry, exactly one
\* probes and the later one does not flush.
C9_OneProbePerWindow ==
    \A r1, r2 \in Refreshers :
        (/\ r1 # r2
         /\ rf[r1].pc = "done" /\ rf[r2].pc = "done"
         /\ rf[r1].use_cache /\ rf[r2].use_cache
         /\ rf[r1].worker = rf[r2].worker
         /\ ~rf[r1].hit
         /\ rf[r1].start <= rf[r2].start
         /\ rf[r2].start - rf[r1].start <= WORKER_HEALTH_CACHE_TTL)
        => /\ rf[r1].probed # rf[r2].probed
           /\ ~rf[r2].flushed

\* C9, amended: a use_cache call that begins while the cache holds an entry
\* for the worker stored no more than the TTL before returns that entry's
\* result at once, without probing, storing or flushing; a call that finds no
\* such entry probes, or stores a misconfigured result without a probe when the
\* connection config cannot be built; and a probe's result is stored under the
\* start time of the call that sent it.
C9_CachedRefresh ==
    [][\A r \in Refreshers :
         /\ (rf[r].pc = "idle" /\ rf'[r].pc # "idle" /\ rf'[r].use_cache)
            => LET w == rf'[r].worker IN
               IF /\ w \in DOMAIN worker_health_cache
                  /\ monotonic - worker_health_cache[w].cached_at <= WORKER_HEALTH_CACHE_TTL
                 THEN /\ rf'[r].pc = "done"
                      /\ rf'[r].result = worker_health_cache[w].result
                      /\ ~rf'[r].probed /\ ~rf'[r].flushed
                      /\ worker_health_cache' = worker_health_cache
               ELSE \/ rf'[r].pc = "probing" /\ rf'[r].probed
                    \/ /\ rf'[r].pc = "done" /\ ~rf'[r].probed
                       /\ rf'[r].result.status = "misconfigured"
                       /\ worker_health_cache'[w] =
                            [result |-> rf'[r].result, cached_at |-> monotonic]
         /\ (rf[r].pc = "probing" /\ rf'[r].pc = "done")
            => worker_health_cache'[rf[r].worker] =
                 [result |-> rf'[r].result, cached_at |-> rf[r].start]]_vars

\* C9, reached: a call probed and a later use_cache call within the TTL
\* returned the first call's result from the cache
C9_Witness ==
    \E r1, r2 \in Refreshers :
        /\ r1 # r2
        /\ rf[r1].pc = "done" /\ rf[r1].probed /\ rf[r1].use_cache
        /\ rf[r2].pc = "done" /\ rf[r2].use_cache /\ rf[r2].hit /\ ~rf[r2].probed
        /\ rf[r2].start > rf[r1].start
        /\ rf[r2].result = rf[r1].result

\* C10: the cache holds no entry for a deleted worker and no entry produced
\* against a record older than the committed one.
C10_NoStaleCacheEntry ==
    \A w \in DOMAIN worker_health_cache :
        /\ workerRec[w].exists
        /\ worker_health_cache[w].result.gen >= workerRec[w].gen

\* C11: with a running container the result is running for every recorded status
\* except stopping, for which it is stopping, whatever state_status, exit_code,
\* oom_killed and error_msg are.
C11_RunningContainerResolves ==
    (rsOut # "" /\ rsIn.container_status = "running") =>
        rsOut = (IF rsIn.current_status = "stopping" THEN "stopping" ELSE "running")

C11_Witness ==
    /\ rsOut = "running"
    /\ rsIn.container_status = "running"
    /\ rsIn.current_status = "error"
    /\ rsIn.exit_code = 137
    /\ rsIn.oom_killed

\* C12: container not running and recorded status stopping: the result is stopping
\* exactly when state_status is created, restarting or starting, and stopped
\* otherwise, never error, for every exit_code, oom_killed and error_msg.
C12_StoppingResolves ==
    (rsOut # "" /\ rsIn.container_status # "running" /\ rsIn.current_status = "stopping") =>
        /\ rsOut \in {"stopping", "stopped"}
        /\ rsOut = "stopping" <=> rsIn.state_status \in {"created", "restarting", "starting"}

C12_Witness ==
    /\ rsOut = "stopped"
    /\ rsIn.container_status = "exited"
    /\ rsIn.current_status = "stopping"
    /\ rsIn.state_status = "exited"
    /\ rsIn.exit_code = 137
    /\ rsIn.oom_killed

\* C13 as stated: container not running, recorded status not stopping: starting
\* with a transitional state_status and no exit code stays starting; every other
\* case follows the exit-code mapping alone, for starting and for steady states:
\* 0 or 143 stopped, 137 error when oom_killed or error_msg is non-blank and
\* stopped otherwise, anything else error.
C13_ExitCodeMappingAlone ==
    (rsOut # "" /\ rsIn.container_status # "running" /\ rsIn.current_status # "stopping") =>
        LET nonBlank == \E i \in 1 .. Len(rsIn.error_msg) :
                            rsIn.error_msg[i] \notin {" ", "\t", "\n"}
        IN  rsOut =
                IF /\ rsIn.current_status = "starting"
                   /\ rsIn.state_status \in {"created", "restarting", "starting"}
                   /\ rsIn.exit_code = ExitUnset
                THEN "starting"
                ELSE IF rsIn.exit_code \in {0, 143} THEN "stopped"
                ELSE IF rsIn.exit_code = 137
                     THEN IF rsIn.oom_killed \/ nonBlank THEN "error" ELSE "stopped"
                ELSE "error"

\* C13 amended: as stated, and an unset exit code outside the stays-starting case
\* gives stopped, for starting and for steady states alike.
C13_ExitCodeMappingWithUnset ==
    (rsOut # "" /\ rsIn.container_status # "running" /\ rsIn.current_status # "stopping") =>
        LET nonBlank == \E i \in 1 .. Len(rsIn.error_msg) :
                            rsIn.error_msg[i] \notin {" ", "\t", "\n"}
        IN  rsOut =
                IF /\ rsIn.current_status = "starting"
                   /\ rsIn.state_status \in {"created", "restarting", "starting"}
                   /\ rsIn.exit_code = ExitUnset
                THEN "starting"
                ELSE IF rsIn.exit_code \in {ExitUnset, 0, 143} THEN "stopped"
                ELSE IF rsIn.exit_code = 137
                     THEN IF rsIn.oom_killed \/ nonBlank THEN "error" ELSE "stopped"
                ELSE "error"

C13_Witness ==
    /\ rsOut = "stopped"
    /\ rsIn.container_status # "running"
    /\ rsIn.current_status = "starting"
    /\ rsIn.exit_code = 137
    /\ ~rsIn.oom_killed
    /\ rsIn.error_msg = <<" ", "\t">>

\* C14: once the stored status of an environment is error, no start, stop, launch
\* or read changes the stored status to, or reports it as, anything but error
\* (stated here for host-managed environments, whose status the host itself
\* resolves).
C14_ErrorIsTerminal ==
    [][\A e \in Rows :
          (envs[e].worker = HostScope /\ envs[e].status = "error" /\ e \in DOMAIN envs') =>
              /\ envs'[e].status = "error"
              /\ readResp'[e] # readResp[e] => readResp'[e] = "error"]_vars

\* C15: a supplied fingerprint that names another key (SHA256 or MD5 form) makes
\* connect fail with ssh_host_key_mismatch, a malformed one with
\* ssh_host_key_invalid_fingerprint, in both cases without any authentication call
\* and with the transport closed; with a fingerprint supplied, no authentication
\* call is made before the verification has returned.
C15_MismatchFailsBeforeAuth ==
    /\ (ssh.pc = "done" /\ ssh.server_key
          /\ ssh.fp.kind \in {"sha256_mismatch", "md5_mismatch"}) =>
           (ssh.error = "ssh_host_key_mismatch" /\ ssh.auth = <<>> /\ ssh.transport = "closed")
    /\ (ssh.pc = "done" /\ ssh.server_key /\ ssh.fp.kind = "sha256_lower_mismatch") =>
           /\ ssh.error \in {"ssh_host_key_mismatch", "ssh_host_key_invalid_fingerprint"}
           /\ ssh.auth = <<>> /\ ssh.transport = "closed"
    /\ (ssh.pc = "done" /\ ssh.server_key /\ ssh.fp.kind = "md5_malformed") =>
           /\ ssh.error = "ssh_host_key_invalid_fingerprint"
           /\ ssh.auth = <<>> /\ ssh.transport = "closed"
    /\ (ssh.fp.text # <<>> /\ ssh.auth # <<>>) => ssh.verified
    /\ (ssh.fp.text # <<>> /\ ssh.pc = "done" /\ ssh.error # "") => ssh.transport # "open"

\* C16: a worker is never deleted while an environment references it: a delete
\* that finds a referencing environment answers 409 and removes nothing, every
\* stored environment bound to a worker references an existing worker, and an
\* environment that lives on a worker is never stored as host-managed.
C16_WorkerReferencesIntact ==
    /\ wdel.resp = 409 => \A w \in WorkerIds : workerRec[w].exists
    /\ \A e \in Rows : envs[e].worker # HostScope => workerRec[envs[e].worker].exists
    /\ \A e \in Rows : remote[e] => envs[e].worker # HostScope

\* C17: no two stored environments share a name, local or delegated, under any
\* interleaving of creates.  A create passes the up-front check only with a free
\* name; a name collision met at insert ends the create without a row and without a
\* retry, with 409 duplicate_environment_name (a delegated create may instead
\* re-raise another database error); a port collision met at insert, with retries
\* left, sends the create back to allocate fresh ports.
C17_NamesUnique ==
    /\ [](\A e1, e2 \in Rows : e1 # e2 => envs[e1].name # envs[e2].name)
    /\ [][\A p \in Procs :
            LET collides == \E e \in Rows : envs[e].name = cr[p].req.name
                clashes == \E e \in Rows : \/ envs[e].ssh = cr[p].pend.ssh
                                           \/ envs[e].jup = cr[p].pend.jup
                                           \/ envs[e].code = cr[p].pend.code
                flushed == cr[p].pc \in {"l_flush", "d_flush"} /\ cr'[p] # cr[p]
                dup == Resp(409, "duplicate_environment_name")
            IN  /\ (cr[p].pc = "idle" /\ cr'[p].pc \in {"l_txn", "d_call"}) =>
                       ~\E e \in Rows : envs[e].name = cr'[p].req.name
                /\ (flushed /\ collides /\ ~clashes) =>
                       /\ p \notin DOMAIN envs'
                       /\ cr'[p].attempts = cr[p].attempts
                       /\ IF cr[p].pc = "l_flush"
                            THEN cr'[p].pc = "done" /\ cr'[p].resp = dup
                          ELSE /\ cr'[p].pc = "d_cleanup"
                               /\ cr'[p].resp \in {dup, Resp(500, "internal_error")}
                /\ (flushed /\ clashes /\ ~collides
                      /\ cr[p].attempts + 1 < MAX_PORT_ALLOCATION_RETRIES) =>
                       \/ /\ cr'[p].pc = (IF cr[p].pc = "l_flush" THEN "l_txn" ELSE "d_txn")
                          /\ cr'[p].attempts = cr[p].attempts + 1
                          /\ p \notin DOMAIN envs'
                       \/ cr[p].pc = "d_flush" /\ cr'[p].resp = Resp(500, "internal_error")
       ]_vars

C17_Witness ==
    \E p \in Procs :
        /\ cr[p].pc = "d_cleanup"
        /\ cr[p].resp = Resp(409, "duplicate_environment_name")
        /\ cr[p].attempts = 0
        /\ \E e \in Rows : e # p /\ envs[e].worker = HostScope

\* C18: the delete of a delegated environment tolerates its absence on the worker.
\* Without force, a remote delete answered with 404 or with a not-found code counts
\* as completed and the request goes on to the local cleanup; with force the
\* request goes on to the local cleanup whatever the worker answers.  A request
\* that ends without a failure of the local stage answers 204 and has removed the
\* row and its side records.
C18_RemoteAbsenceTolerated ==
    \A d \in Deleters :
        LET r == del[d]
            notFound == \/ r.answer.status_code = 404
                        \/ r.answer.code \in {"environment_not_found",
                                              "worker_environment_not_found"}
            removed == /\ r.resp = Resp(204, "deleted")
                       /\ r.env \notin Rows
                       /\ r.env \notin DOMAIN customSetting
                       /\ r.env \notin tokenKeys
        IN  /\ (r.worker # HostScope /\ ~r.force /\ notFound /\ r.pc \in {"local", "done"}) =>
                   /\ r.completed
                   /\ r.failed_at \in {"", "db"}
                   /\ (r.pc = "done" /\ r.failed_at = "") => removed
            /\ (r.worker # HostScope /\ r.force /\ r.pc \in {"local", "done"}) =>
                   /\ r.failed_at \in {"", "db"}
                   /\ (r.pc = "done" /\ r.failed_at = "") => removed

C18_Witness ==
    \E d \in Deleters :
        /\ del[d].worker # HostScope
        /\ ~del[d].force
        /\ del[d].answer.code = "environment_not_found"
        /\ del[d].resp = Resp(204, "deleted")
        /\ del[d].env \notin Rows

\* C19: a local cleanup of a delegated environment that fails after the remote
\* delete completed answers 500 local_cleanup_failed and leaves the row and the
\* side records as they were; a forced delete made afterwards, which finds the
\* environment gone from the worker, goes on to the local cleanup and, unless that
\* fails again, answers 204 with the row removed.
C19_LocalCleanupFailure ==
    /\ [](\A d \in Deleters :
            /\ (del[d].failed_at = "db" /\ del[d].worker # HostScope /\ del[d].completed) =>
                   del[d].resp = Resp(500, "local_cleanup_failed")
            /\ (del[d].retry /\ del[d].force /\ del[d].pc = "done") =>
                   /\ del[d].failed_at \in {"", "db"}
                   /\ del[d].failed_at = "" =>
                          (del[d].resp = Resp(204, "deleted") /\ del[d].env \notin Rows))
    /\ [][\A d \in Deleters :
            (del[d].failed_at # "db" /\ del'[d].failed_at = "db") =>
                (envs' = envs /\ customSetting' = customSetting /\ tokenKeys' = tokenKeys)]_vars

C19_Witness ==
    \E d, o \in Deleters :
        /\ del[o].resp = Resp(500, "local_cleanup_failed")
        /\ del[d].retry /\ del[d].force
        /\ del[d].env = del[o].env
        /\ del[d].answer.status_code = 404
        /\ del[d].resp = Resp(204, "deleted")
        /\ del[d].env \notin Rows

\* C20: a create with an empty or whitespace-only Dockerfile answers 400, one
\* whose name exists 409, one whose root password cannot be encrypted 500; the
\* rejecting step allocates no port or GPU, writes no row or side record, calls no
\* worker and enqueues no task.
C20_UpFrontRejection ==
    [][\A p \in Procs, r \in ValidationRequests :
          LET blank == \A i \in 1 .. Len(r.dockerfile_content) :
                           r.dockerfile_content[i] \in {" ", "\t", "\n"}
              taken == \E e \in Rows : envs[e].name = r.name
              rejected == blank \/ taken \/ r.cipher # "ok"
          IN  (CreateBegin(p, {r}) /\ rejected) =>
                  /\ cr'[p].pc = "done" /\ cr'[p].pend = NoPend
                  /\ blank => cr'[p].resp.status = 400
                  /\ (~blank /\ taken) => cr'[p].resp = Resp(409, "duplicate_environment_name")
                  /\ (~blank /\ ~taken) => cr'[p].resp.status = 500
                  /\ UNCHANGED <<envs, customSetting, tokenKeys, container, lock, remote,
                                 remoteDeletes, task, startPc>>]_vars

C20_Witness ==
    \E p \in Procs :
        /\ cr[p].pc = "done"
        /\ cr[p].resp = Resp(500, "password_encryption_failed")
        /\ \E e \in Rows : e # p

\* the step of request p in which its remote create call is sent
SendsRemoteCreate(p) == cr[p].pc # "d_call" /\ cr'[p].pc = "d_call"
\* the step of request p in which refresh_worker_health returns to it
HealthReturns(p) == ready[p].status = "" /\ ready'[p].status # ""
\* the step fails request p with this answer, sends no remote create and inserts no row
FailsUntouched(p, status, code) ==
    /\ cr'[p].pc = "done" /\ cr'[p].resp = Resp(status, code)
    /\ UNCHANGED <<envs, remote>>

\* C21 as stated: a delegated create sends the remote create only when the worker
\* record exists and a health check of the worker would find it healthy at that
\* moment; a missing worker gives a valid request 404 worker_not_found and a health status other
\* than healthy gives 503 worker_unreachable, both without a remote create call
\* and without a local row.
C21_CallOnlyWhenHealthyNow ==
    [][\A p \in Procs :
          /\ SendsRemoteCreate(p) =>
                /\ workerRec[cr'[p].req.worker].exists
                /\ CheckWorkerHealth(RequestWorkerHealth(peer[cr'[p].req.worker])) = "healthy"
          /\ HealthReturns(p) /\ ready'[p].status # "healthy" =>
                FailsUntouched(p, 503, "worker_unreachable")
          /\ \A r \in ReadyRequests :
                CreateBegin(p, {r}) /\ UpFrontCheck(r) = NoResp /\ ~workerRec[r.worker].exists =>
                    FailsUntouched(p, 404, "worker_not_found")]_vars

\* C21 amended: a delegated create sends the remote create only in the step in
\* which refresh_worker_health returns healthy to it, from a probe of this request
\* or from a cache entry no older than the TTL, the request having found the
\* worker record; a missing worker gives 404 worker_not_found and a returned
\* status other than healthy gives 503 worker_unreachable, both without a remote
\* create call and without a local row.
C21_CallOnlyWhenReportedHealthy ==
    /\ [][\A p \in Procs :
            /\ SendsRemoteCreate(p) =>
                  /\ HealthReturns(p) /\ ready'[p].status = "healthy"
                  /\ ready'[p].how = "cached" =>
                        /\ workerRec[cr'[p].req.worker].exists
                        /\ CacheFresh(cr'[p].req.worker, monotonic)
                  /\ ready'[p].how = "probed" =>
                        CheckWorkerHealth(RequestWorkerHealth(peer[cr'[p].req.worker]))
                          = "healthy"
            /\ HealthReturns(p) /\ ready'[p].status # "healthy" =>
                  FailsUntouched(p, 503, "worker_unreachable")
            /\ \A r \in ReadyRequests :
                  CreateBegin(p, {r}) /\ UpFrontCheck(r) = NoResp /\ ~workerRec[r.worker].exists =>
                      FailsUntouched(p, 404, "worker_not_found")]_vars
    /\ [](\A p \in Procs : remote[p] => ready[p].status = "healthy")

\* a request sent its remote create on a healthy status that the probe of another
\* request had cached, while the worker's address no longer answered as a
\* healthy worker
C21_Witness ==
    \E p, q \in Procs :
        /\ ready[q].how = "probed" /\ ready[q].status = "healthy"
        /\ cr[p].pc = "d_call" /\ ready[p].how = "cached" /\ ready[p].status = "healthy"
        /\ CheckWorkerHealth(RequestWorkerHealth(ready[p].served)) # "healthy"

\* C22: when a create is delegated to a worker that serves this program's worker
\* API and the worker's create succeeds, the main node's create succeeds and there
\* is a shadow row under the id of the worker's environment, with the status the
\* worker reported, the worker's GPU allocation and that worker as
\* worker_server_id.
C22_DelegatedCreateMirrors ==
    \A p \in Procs :
        cr[p].pc = "done" /\ remote[p] /\ remoteEnv[p].by = "lyra" =>
            /\ cr[p].resp = Resp(201, "created")
            /\ p \in Rows
            /\ envs[p].status = remoteEnv[p].status
            /\ envs[p].gpu = Range(remoteEnv[p].gpu)
            /\ envs[p].worker = remoteEnv[p].worker

\* C23: the body that this program's worker health endpoint gives to a request
\* with the right token is classified healthy by check_worker_health.
C23_OwnHealthBodyIsHealthy ==
    \A p \in Procs :
        ready[p].how = "probed" /\ ready[p].status # "" /\ ready[p].served = "lyra" =>
            ready[p].status = "healthy"

\* C24: every environment whose local create answered 201 eventually has the
\* stored status running or error, the provisioning task running to its end,
\* however the create request's update to building interleaves with the task's
\* writes; and once the task has written its final running or error, the create
\* request does not overwrite it with building.
C24_CreatedReachesFinalStatus ==
    /\ \A p \in Procs :
          (cr[p].pc = "done" /\ cr[p].resp = Resp(201, "created") /\ p \in Rows)
            ~> (p \in Rows /\ envs[p].status \in {"running", "error"})
    /\ [][\A p \in Procs :
            task[p].pc = "done" /\ p \in Rows /\ envs[p].status \in {"running", "error"}
              => envs'[p].status # "building"]_vars

\* a request whose proxied call is made: the worker exists and passes the health gate
CallIsMade(e) ==
    /\ envs[e].worker # HostScope
    /\ workerRec[envs[e].worker].exists
    /\ HealthPasses(RefreshNow(envs[e].worker))

\* C25: a start or stop request that fails (a container-runtime error of a local
\* environment, a failed proxied call of a delegated one) leaves the stored status
\* of the environment equal to error
C25_FailureLeavesError ==
    [][\A e \in Rows :
          (/\ opResp' # opResp
           /\ opResp'.env = e
           /\ opResp'.status >= 400
           /\ envs[e].worker = HostScope \/ CallIsMade(e)) =>
              envs'[e].status = "error"]_vars

\* C26: a start of a local environment whose container is already running calls
\* container.start() not at all, stores status running and answers 200; made again
\* on the state it leaves, it changes neither the stored status nor the container
C26_StartIdempotentWhenRunning ==
    [][\A e \in Rows :
          (StartBegin(e, "ok") /\ container[e] = "running") =>
              /\ startPc'[e] = "idle"
              /\ container' = container
              /\ envs'[e].status = "running"
              /\ opResp' = [env |-> e, op |-> "start", status |-> 200,
                            message |-> "already running"]
              /\ envs[e].status = "running" => envs' = envs]_vars

\* a start has found the container running and answered "already running", and
\* the environment is stored as running over a running container
C26_Witness ==
    \E e \in Rows :
       /\ opResp = [env |-> e, op |-> "start", status |-> 200, message |-> "already running"]
       /\ container[e] = "running"
       /\ envs[e].status = "running"

\* the remote status query of a read of environment e fails
QueryFails(e, called_ok) == ~(called_ok /\ peer[envs[e].worker] \in {"flat", "lyra"})
\* the worker of environment e is missing, is not healthy, or the query fails
ReadTroubled(e, called_ok) ==
    \/ ~workerRec[envs[e].worker].exists
    \/ RefreshNow(envs[e].worker) # "healthy"
    \/ QueryFails(e, called_ok)
\* the read reports unknown with a worker error code and leaves the store alone
ReportsUnknown(e) ==
    /\ readResp'[e] = "unknown"
    /\ readErr'[e] # ""
    /\ envs' = envs
\* one get of e, or one list, with this outcome of the remote status query
GetOf(e, called_ok) ==
    \E remote_status \in ReadStatuses : ReadEnvironment(e, "ok", NoState, remote_status, called_ok)
ListWith(called_ok) ==
    \E remote_status \in ReadStatuses : ReadEnvironments("ok", {}, NoState, remote_status, called_ok)

C28_ListWritesBack ==
    [][\A docker \in {"ok", "unavailable"}, failing \in SUBSET EnvIds, state \in ReadStates :
          ReadEnvironments(docker, failing, state, "running", TRUE) =>
             \A e \in {x \in Rows : envs[x].worker = HostScope} :
                /\ envs'[e].status =
                      IF docker = "ok" /\ e \notin failing /\ container[e] # "none"
                        THEN LocalRead(e, TRUE, state)
                      ELSE envs[e].status
                /\ readResp'[e] = LocalRead(e, docker = "ok" /\ e \notin failing, state)]_vars

\* C29: in reject mode (the default, and the mode of an unrecognised value) a
\* connect succeeds only if the trusted store already holds the server's host key,
\* with a host fingerprint supplied or without one
C29_RejectNeedsTrustedKey ==
    (ssh.pc = "done" /\ ssh.error = "" /\ ssh.mode = "reject") => ssh.known = "yes"

\* the five codes of the taxonomy
SshTaxonomy ==
    {"ssh_host_key_untrusted", "ssh_host_key_mismatch", "ssh_host_key_invalid_fingerprint",
     "ssh_auth_failed", "ssh_connection_failed"}

\* C30: every failed connect carries, once mapped, one of the five codes of the
\* taxonomy, an unparsable private key included
C30_CodesInTaxonomy ==
    (ssh.pc = "done" /\ ssh.error # "") => ssh.error \in SshTaxonomy

\* C30 (amended): every failed connect carries one of the five codes or
\* ssh_private_key_invalid; that code is the one of a key authentication whose
\* private key no parser accepts, and of nothing else
C30_CodesInTaxonomyOrKeyInvalid ==
    (ssh.pc = "done" /\ ssh.error # "") =>
       /\ ssh.error \in SshTaxonomy \cup {"ssh_private_key_invalid"}
       /\ ssh.error = "ssh_private_key_invalid" =>
             (ssh.auth_method = "key" /\ ssh.has_key /\ ssh.auth = <<>>)

\* a connect with a pinned, matching fingerprint has failed on its private key
C30_Witness ==
    /\ ssh.pc = "done"
    /\ ssh.error = "ssh_private_key_invalid"
    /\ ssh.verified

\* C31: no two rows of worker_servers have names that are equal ignoring case, and
\* no two have the same normalized base URL
C31_WorkerRowsUnique ==
    \A r1, r2 \in DOMAIN wtab :
       r1 # r2 =>
          /\ Lower(wtab[r1].name) # Lower(wtab[r2].name)
          /\ NormalizeBaseUrl(wtab[r1].base_url) # NormalizeBaseUrl(wtab[r2].base_url)

\* C32: once a local environment that was created has been deleted, no container of
\* it exists, whatever the provisioning task of that environment was doing when the
\* delete ran
C32_NoContainerAfterDelete ==
    \A e \in EnvIds :
       (cr[e].resp.status = 201 /\ e \notin Rows) =>
           container[e] = "none"

\* what the worker says when it reports an environment as not found: a 404, a
\* not-found code, or an uncoded failure whose message says not found
SaysNotFound(a) ==
    \/ a.status_code = 404
    \/ a.code \in {"environment_not_found", "worker_environment_not_found"}
    \/ (a.code = "worker_request_failed" /\ a.not_found_text)

\* C33: without force, the shadow row of a delegated environment is removed only
\* after the remote delete succeeded or the worker reported the environment as not
\* found (in its answer to the DELETE or to the GET that follows a failed DELETE);
\* when the worker is missing or unhealthy, or fails otherwise, the request ends
\* with an error and the row and its side records stay as they were.
C33_ShadowRowKeptOnRemoteFailure ==
    /\ [](\A d \in Deleters :
            (del[d].worker # HostScope /\ ~del[d].force /\ del[d].resp = Resp(204, "deleted")) =>
                del[d].completed)
    /\ [][\A d \in Deleters, healthy, gone \in BOOLEAN,
             answer, probe \in {AnswerOk} \cup WorkerErrorAnswers :
            (DeleteRemote(d, healthy, answer, gone, probe) /\ ~del[d].force) =>
                LET absent == \/ answer # AnswerOk /\ SaysNotFound(answer)
                              \/ probe # AnswerOk /\ SaysNotFound(probe)
                    bad == \/ ~workerRec[del[d].worker].exists
                           \/ ~healthy
                           \/ answer # AnswerOk /\ ~absent
                IN  IF bad
                      THEN /\ del'[d].pc = "done"
                           /\ del'[d].resp.status >= 400
                           /\ ~del'[d].completed
                           /\ UNCHANGED storeVars
                    ELSE del'[d].pc = "local" /\ del'[d].completed]_vars

C33_Witness ==
    \E d \in Deleters :
        /\ del[d].worker # HostScope
        /\ ~del[d].force
        /\ del[d].pc = "done"
        /\ del[d].failed_at = "remote"
        /\ del[d].answer.code = "worker_request_failed"
        /\ ~SaysNotFound(del[d].answer)
        /\ del[d].resp.status = 500
        /\ del[d].env \in Rows

\* a redemption request ends rejected: with the ticket presented for another
\* environment id (400), or after the lookup with the environment gone (404), its
\* service disabled or the environment not running (409)
Rejected(q) ==
    /\ rd'[q].pc = "done"
    /\ \/ rd[q].pc = "idle" /\ rd'[q].resp = 400
       \/ rd[q].pc = "lookup" /\ rd'[q].resp \in {404, 409}

\* C34: a rejected redemption does not consume the ticket: it leaves the ticket's
\* record as it was and the ticket in its table; and a redemption with the
\* matching environment id that ends after a rejected one, begun within the TTL and
\* before any redirect of the ticket, with the environment servable, returns the
\* redirect.
C34_RejectionKeepsTicket ==
    [][\A q \in Redeemers :
         /\ Rejected(q) =>
                /\ ticketMeta' = ticketMeta
                /\ rd'[q].ticket \in jupyter_launch_tickets =>
                       rd'[q].ticket \in jupyter_launch_tickets'
                /\ rd'[q].ticket \in code_launch_tickets =>
                       rd'[q].ticket \in code_launch_tickets'
         /\ (/\ rd[q].pc # "done"
             /\ rd'[q].pc = "done"
             /\ rd'[q].env = ticketMeta[rd'[q].ticket].env
             /\ ~rd'[q].late /\ ~rd'[q].later
             /\ Servable(q)
             /\ \E o \in Redeemers \ {q} :
                    /\ rd[o].pc = "done"
                    /\ rd[o].ticket = rd'[q].ticket
                    /\ rd[o].resp \in {400, 409})
            => rd'[q].resp = 307]_vars

C34_Witness ==
    \E q, o \in Redeemers :
        /\ q # o
        /\ rd[o].pc = "done" /\ rd[o].resp = 400
        /\ rd[q].pc = "done" /\ rd[q].resp = 307
        /\ rd[q].ticket = rd[o].ticket
        /\ ~rd[q].first
        /\ rd[o].first

\* C35: a create request makes at most 8 allocate-and-insert attempts and ends.
\* A port uniqueness violation at the insert counts one failed attempt; before the
\* 8th it sends the request back to the allocation, which picks ports free in the
\* rows committed by then; the 8th ends the request with 503
\* port_allocation_failed; and a request that has begun always ends.
C35_BoundedRetries ==
    /\ [](\A p \in Procs :
            /\ cr[p].attempts <= MAX_PORT_ALLOCATION_RETRIES
            /\ cr[p].attempts = MAX_PORT_ALLOCATION_RETRIES =>
                   /\ cr[p].pc \in {"d_cleanup", "done"}
                   /\ cr[p].resp = Resp(503, "port_allocation_failed")
            /\ cr[p].pc \in {"l_flush", "d_flush"} =>
                   cr[p].attempts < MAX_PORT_ALLOCATION_RETRIES)
    /\ [][\A p \in Procs :
            /\ cr'[p].attempts \in {cr[p].attempts, cr[p].attempts + 1}
            /\ cr'[p].attempts = cr[p].attempts + 1 =>
                   /\ cr[p].pc \in {"l_flush", "d_flush"}
                   /\ PortUniqueViolation(cr[p].pend)
                   /\ p \notin DOMAIN envs'
                   /\ IF cr'[p].attempts < MAX_PORT_ALLOCATION_RETRIES
                        THEN cr'[p].pc = (IF cr[p].pc = "l_flush" THEN "l_txn" ELSE "d_txn")
                      ELSE cr'[p].resp = Resp(503, "port_allocation_failed")
            /\ (cr[p].pc \in {"l_txn", "d_txn"} /\ cr'[p].pc \in {"l_flush", "d_flush"}) =>
                   ~PortUniqueViolation(cr'[p].pend)]_vars
    /\ \A p \in Procs : (cr[p].pc # "idle") ~> (cr[p].pc = "done")

C35_Witness ==
    \E p \in Procs :
        /\ cr[p].pc = "done"
        /\ cr[p].attempts = MAX_PORT_ALLOCATION_RETRIES
        /\ cr[p].resp = Resp(503, "port_allocation_failed")
        /\ p \notin Rows

\* what a create request p has stored or queued: its row, its jupyter_token and
\* custom_ports settings, its provisioning task
NothingLeft(p) ==
    /\ p \notin Rows
    /\ p \notin tokenKeys
    /\ p \notin DOMAIN customSetting
    /\ task[p].pc = "none"

\* C36: a local create that fails inside the allocation transaction (no port left
\* in a range, a requested GPU taken, fewer free GPUs than asked for, or the retry
\* budget spent) answers with the error and has stored no row, no jupyter_token
\* and no custom_ports setting and queued no task, then or later.
C36_FailedCreateLeavesNothing ==
    /\ [][\A p \in Procs :
            (cr[p].pc \in {"l_txn", "l_flush"} /\ cr'[p].pc = "done") =>
                /\ cr'[p].resp \in {Resp(503, "port_allocation_failed"),
                                    Resp(409, "gpu_already_allocated"),
                                    Resp(409, "duplicate_environment_name")}
                /\ NothingLeft(p)']_vars
    /\ [](\A p \in Procs :
            (/\ cr[p].pc = "done"
             /\ cr[p].resp \in {Resp(503, "port_allocation_failed"),
                                Resp(409, "gpu_already_allocated")}) => NothingLeft(p))

\* the port range exhausted: the first attempt finds no free port
C36_Witness ==
    \E p \in Procs :
        /\ cr[p].pc = "done"
        /\ cr[p].resp = Resp(503, "port_allocation_failed")
        /\ cr[p].attempts = 0
        /\ NothingLeft(p)

\* C37: GPU allocation at the create of a host-managed environment.  Requested
\* indices with a duplicate or outside [0, total) answer 400; requested indices of
\* which one is held by an occupied host-managed environment when the row is
\* inserted answer 409 gpu_already_allocated; otherwise the row stores exactly the
\* requested indices.  A request for N GPUs stores the N smallest indices of
\* [0, total) not held in the scope, and fails without a row when fewer than N
\* are free, at the up-front check or at the insert.
C37_GpuAllocationRules ==
    [][LET r == gp.req
           sel == r.selected
           used == UNION {envs[e].gpu : e \in {x \in Rows :
                             /\ envs[x].worker = HostScope
                             /\ envs[x].status \in {"creating", "building", "running",
                                                    "starting"}}}
           free == (0 .. gp.total - 1) \ used
           bad == \/ \E i, j \in 1 .. Len(sel) : i # j /\ sel[i] = sel[j]
                  \/ \E i \in 1 .. Len(sel) : sel[i] < 0 \/ sel[i] >= gp.total
           failed == gp'.pc = "done" /\ gp'.resp.status >= 400 /\ envs' = envs
           stored(S) == /\ gp'.resp = Resp(201, "created")
                        /\ 1 \in DOMAIN envs' /\ 1 \notin Rows
                        /\ envs'[1].gpu = S
       IN  /\ (gp.pc = "idle" /\ gp'.pc # "idle") =>
                  IF sel # <<>>
                    THEN IF bad THEN failed /\ gp'.resp = Resp(400, "invalid_gpu_selection")
                         ELSE gp'.pc = "txn"
                  ELSE IF Cardinality(free) < r.gpu_count THEN failed /\ gp'.resp.status = 400
                  ELSE gp'.pc = "txn"
           /\ (gp.pc = "txn" /\ gp'.pc = "done") =>
                  IF sel # <<>>
                    THEN IF \E i \in 1 .. Len(sel) : sel[i] \in used
                           THEN failed /\ gp'.resp = Resp(409, "gpu_already_allocated")
                         ELSE stored({sel[i] : i \in 1 .. Len(sel)})
                  ELSE IF Cardinality(free) < r.gpu_count THEN failed
                  ELSE \E S \in SUBSET free :
                         /\ Cardinality(S) = r.gpu_count
                         /\ \A i \in S, j \in free \ S : i < j
                         /\ stored(S)]_vars

\* a request for one GPU made while another host-managed environment holds GPU 0
\* and a delegated one does not count: GPU 1 is stored
C37_Witness ==
    /\ gp.pc = "done"
    /\ gp.resp = Resp(201, "created")
    /\ gp.req.selected = <<>> /\ gp.req.gpu_count = 1
    /\ 1 \in Rows /\ envs[1].gpu = {1}
    /\ \E e \in Rows : e # 1 /\ envs[e].worker = HostScope /\ 0 \in envs[e].gpu

\* a timeout or a refused connection
Unreached(r) == r.raised \in {"TimeoutException", "ConnectError"}

\* C38: check_worker_health calls the worker at most twice.  It calls a second
\* time exactly when the first call raised a timeout or a connection failure; two
\* such failures give unreachable; another error raised by a call gives
\* request_failed and ends the check; and an answer to the second call is
\* classified as the same answer to the first call is.
C38_RetryOnce ==
    /\ [](/\ Len(hc.attempts) <= 2
          /\ Len(hc.attempts) = 2 => Unreached(hc.attempts[1])
          /\ (Len(hc.attempts) = 1 /\ Unreached(hc.attempts[1])) => hc.pc = "probe"
          /\ (hc.pc = "probe" /\ Len(hc.attempts) = 1) => Unreached(hc.attempts[1])
          /\ (hc.pc = "done" /\ hc.attempts # <<>>) =>
                LET last == hc.attempts[Len(hc.attempts)]
                    status == hc.result.status
                IN  /\ Unreached(last) => (Len(hc.attempts) = 2 /\ status = "unreachable")
                    /\ (last.raised # "" /\ ~Unreached(last)) => status = "request_failed"
                    /\ last.raised = "" =>
                          status = (IF last.http_status \in {401, 403} THEN "auth_failed"
                                    ELSE IF last.http_status # 200 THEN "request_failed"
                                    ELSE IF last = RequestWorkerHealth("flat") THEN "healthy"
                                    ELSE "api_mismatch"))
    /\ [][(hc.pc = "probe" /\ hc'.pc = "probe") =>
             (hc.attempts = <<>> /\ Len(hc'.attempts) = 1)]_vars

\* the first call is refused, the second is answered by a healthy worker
C38_Witness ==
    /\ hc.pc = "done"
    /\ Len(hc.attempts) = 2
    /\ hc.attempts[1].raised = "ConnectError"
    /\ hc.attempts[2] = RequestWorkerHealth("flat")
    /\ hc.result.status = "healthy"

\* C39: every result check_worker_health returns after it called the worker
\* carries a latency, whatever the outcome class.
C39_LatencyAlwaysRecorded ==
    (hc.pc = "done" /\ hc.attempts # <<>>) => hc.result.latency_set

\* a text that str.strip() leaves empty
Blank(t) == Strip(t) = <<>>
\* what call_worker_api made of the one request it sent, by the shape of the
\* answer.  emptyKinds are the contents taken for an empty body, nonObjectKinds
\* those taken for a body that is not an object
CallNormalized(w, emptyKinds, nonObjectKinds) ==
    LET r == w.attempts[1]
        c == r.content
        res == w.result
        ok == r.raised = "" /\ r.http_status < 400
        err == r.raised = "" /\ r.http_status >= 400 /\ r.http_status \notin {401, 403}
        obj == c.kind = "object"
        nested == obj /\ c.detail.kind = "object"
    IN  /\ Len(w.attempts) = 1
        /\ r.raised \in {"TimeoutException", "ConnectError"}
              => res.raised /\ res.code = <<"worker_unreachable">>
        /\ ok /\ c.kind \in emptyKinds => ~res.raised /\ res.body = EmptyObject
        /\ ok /\ c.kind \in nonObjectKinds
              => res.raised /\ res.code = <<"worker_api_mismatch">>
        /\ ok /\ obj => ~res.raised /\ res.body = c
        /\ r.raised = "" /\ r.http_status \in {401, 403}
              => res.raised /\ res.code = <<"worker_auth_failed">>
        /\ err => res.raised /\ res.status_code = r.http_status
                     /\ res.code # <<>> /\ res.message # <<>>
        /\ err /\ obj /\ ~Blank(c.code) => res.code = Strip(c.code)
        /\ err /\ nested /\ Blank(c.code) /\ ~Blank(c.detail.code)
              => res.code = Strip(c.detail.code)
        /\ err /\ (~obj \/ (Blank(c.code) /\ (~nested \/ Blank(c.detail.code))))
              => res.code = <<"worker_request_failed">>
        /\ err /\ nested /\ ~Blank(c.detail.message) => res.message = Strip(c.detail.message)
        /\ err /\ obj /\ c.detail.kind = "absent" /\ ~Blank(c.message)
              => res.message = Strip(c.message)
        /\ err /\ (~obj \/ (Blank(c.detail.text) /\ Blank(c.detail.message)
                                /\ Blank(c.detail.detail) /\ Blank(c.message)
                                /\ Blank(c.error)))
              => res.message = <<"Worker responded with status", ToString(r.http_status)>>

\* C40 as stated: call_worker_api sends one request and normalizes its outcome.
\* On success a null or empty body is returned as {} and every other body that
\* is not an object raises worker_api_mismatch; 401 and 403 raise
\* worker_auth_failed; another status of 400 or above raises an error with the
\* status of the answer, the code and message of a nested detail or of the top
\* level, else worker_request_failed and the generic message; a timeout or a
\* refused connection raises worker_unreachable without a second request
C40_NonObjectBodyIsMismatch ==
    (wcall.pc = "done" /\ wcall.attempts # <<>>)
        => CallNormalized(wcall, {"empty", "null"}, {"unparsable", "list"})

\* C40 amended: as above, but a body on success that is not JSON at all is
\* returned as {} like an empty one; only a JSON value that is neither an object
\* nor null raises worker_api_mismatch
C40_UnparsableBodyIsEmpty ==
    (wcall.pc = "done" /\ wcall.attempts # <<>>)
        => CallNormalized(wcall, {"empty", "null", "unparsable"}, {"list"})

\* a 200 whose content is not JSON was returned as {}
C40_Witness ==
    /\ wcall.pc = "done" /\ Len(wcall.attempts) = 1
    /\ wcall.attempts[1].raised = "" /\ wcall.attempts[1].http_status = 200
    /\ wcall.attempts[1].content.kind = "unparsable"
    /\ ~wcall.result.raised /\ wcall.result.body = EmptyObject

====
